---- MODULE Spec2Model ----
(***************************************************************************)
(* A model of tg-reminder: the natural-language task extraction engine     *)
(* (src/src/parser.py), the recurrence advancer (src/src/utils.py) and the *)
(* bot handlers that consume them (src/src/bot.py, src/src/database.py).   *)
(*                                                                         *)
(* Python values whose type varies at run time are tagged records          *)
(* ([type |-> "NoneType"], [type |-> "str", s |-> ...], ...).  Strings are *)
(* TLA+ strings handled character by character.  The Russian words of the  *)
(* regular expressions are transliterated to ASCII letter by letter        *)
(* (the soft sign is written j), which keeps every prefix relation between *)
(* the alternatives of a regular expression.                               *)
(* Time is counted in minutes: a datetime is a proleptic Gregorian ordinal *)
(* day and a minute of the day, as CPython's datetime computes with.       *)
(***************************************************************************)
EXTENDS Integers, Sequences, FiniteSets, TLC

\* pc is the handler or function that ran last, args what it was given and
\* ret what it returned or raised.  clock is the wall clock, tasks the rows of
\* the tasks table, lastrowid its AUTOINCREMENT counter, jobs the job queue,
\* pending the pending_action of each user's user_data, sent the reminder
\* messages sent so far, posts the number of requests.post calls made by the
\* parse_task_text call in progress or last finished.
VARIABLES pc, args, ret, clock, tasks, lastrowid, jobs, pending, sent, posts

vars == <<pc, args, ret, clock, tasks, lastrowid, jobs, pending, sent, posts>>

botvars == <<clock, tasks, lastrowid, jobs, pending, sent, posts>>

(***************************************************************************)
(* Python values                                                           *)
(***************************************************************************)
None == [type |-> "NoneType"]

Str(s) == [type |-> "str", s |-> s]

Int_(n) == [type |-> "int", n |-> n]

Raise(exc) == [type |-> "raise", exc |-> exc]

IsRaise(v) == v.type = "raise"

\* An assignment name = value followed by the statements rest, which read
\* the name; the value is written once however often the name is read.
Let(value, rest(_)) == rest(value)

\* The same when evaluating the value can raise: the exception leaves the
\* function and the statements that follow do not run.
Then(value, rest(_)) == IF IsRaise(value) THEN value ELSE rest(value)

(***************************************************************************)
(* str methods                                                             *)
(***************************************************************************)
CharAt(s, i) == SubSeq(s, i, i)

UPPER == "ABCDEFGHIJKLMNOPQRSTUVWXYZ"

LOWER == "abcdefghijklmnopqrstuvwxyz"

DIGITS == "0123456789"

\* The position of the one-character c in alphabet, or 0.
IndexIn(alphabet, c) ==
    IF \E k \in 1..Len(alphabet) : SubSeq(alphabet, k, k) = c
    THEN CHOOSE k \in 1..Len(alphabet) : SubSeq(alphabet, k, k) = c
    ELSE 0

LowerChar(c) ==
    Let(IndexIn(UPPER, c), LAMBDA k : IF k > 0 THEN SubSeq(LOWER, k, k) ELSE c)

\* s.lower(), one half of the string after the other
RECURSIVE lower(_)
lower(s) ==
    IF Len(s) = 0 THEN ""
    ELSE IF Len(s) = 1 THEN LowerChar(s)
    ELSE lower(SubSeq(s, 1, Len(s) \div 2)) \o lower(SubSeq(s, Len(s) \div 2 + 1, Len(s)))

IsSpace(c) == c \in {" ", "\t", "\n"}

IsDigit(c) == IndexIn(DIGITS, c) > 0

RECURSIVE lstrip(_)
lstrip(s) == IF Len(s) > 0 /\ IsSpace(Head(s)) THEN lstrip(Tail(s)) ELSE s

RECURSIVE rstrip(_)
rstrip(s) ==
    IF Len(s) > 0 /\ IsSpace(CharAt(s, Len(s)))
    THEN rstrip(SubSeq(s, 1, Len(s) - 1))
    ELSE s

strip(s) == rstrip(lstrip(s))

startswith(s, prefix) ==
    Len(s) >= Len(prefix) /\ SubSeq(s, 1, Len(prefix)) = prefix

isdigit(s) == Len(s) > 0 /\ \A k \in 1..Len(s) : IsDigit(CharAt(s, k))

RECURSIVE int(_)
int(s) ==
    IF Len(s) = 0 THEN 0
    ELSE 10 * int(SubSeq(s, 1, Len(s) - 1)) + (IndexIn(DIGITS, CharAt(s, Len(s))) - 1)

\* str(n) for n >= 0
RECURSIVE str_int(_)
str_int(n) ==
    IF n < 10 THEN CharAt(DIGITS, n + 1)
    ELSE str_int(n \div 10) \o CharAt(DIGITS, (n % 10) + 1)

\* The end of the run of non-blank characters that starts at i.
RECURSIVE WordEnd(_, _)
WordEnd(s, i) ==
    IF i <= Len(s) /\ ~IsSpace(CharAt(s, i)) THEN WordEnd(s, i + 1) ELSE i

RECURSIVE SplitFrom(_, _)
SplitFrom(s, i) ==
    IF i > Len(s) THEN <<>>
    ELSE IF IsSpace(CharAt(s, i)) THEN SplitFrom(s, i + 1)
    ELSE <<SubSeq(s, i, WordEnd(s, i) - 1)>> \o SplitFrom(s, WordEnd(s, i))

split(s) == SplitFrom(s, 1)

\* " ".join(parts)
RECURSIVE join(_)
join(parts) ==
    IF parts = <<>> THEN ""
    ELSE IF Len(parts) = 1 THEN parts[1]
    ELSE parts[1] \o " " \o join(Tail(parts))

\* s.find(c) for a one-character c, counted from 0; -1 when absent
find(s, c) ==
    IF \E k \in 1..Len(s) : CharAt(s, k) = c
    THEN (CHOOSE k \in 1..Len(s) : CharAt(s, k) = c /\ \A j \in 1..(k - 1) : CharAt(s, j) # c) - 1
    ELSE -1

(***************************************************************************)
(* datetime and timedelta                                                  *)
(***************************************************************************)
MINYEAR == 1

MAXYEAR == 9999

MinutesPerDay == 24 * 60

_is_leap(year) == year % 4 = 0 /\ (year % 100 # 0 \/ year % 400 = 0)

_days_before_year(year) ==
    LET y == year - 1 IN y * 365 + (y \div 4) - (y \div 100) + (y \div 400)

stdlib_days_in_month(year, month) ==
    IF month = 2 /\ _is_leap(year) THEN 29
    ELSE <<31, 28, 31, 30, 31, 30, 31, 31, 30, 31, 30, 31>>[month]

RECURSIVE _days_before_month(_, _)
_days_before_month(year, month) ==
    IF month = 1 THEN 0
    ELSE _days_before_month(year, month - 1) + stdlib_days_in_month(year, month - 1)

_ymd2ord(year, month, day) ==
    _days_before_year(year) + _days_before_month(year, month) + day

MaxOrdinal == _ymd2ord(MAXYEAR, 12, 31)

\* The year of ordinal day n and the day's index in that year (from 0), then
\* the month that index falls in.
_ord2ymd(n) ==
    LET n0 == n - 1
        n400 == n0 \div 146097
        r400 == n0 % 146097
        n100 == r400 \div 36524
        r100 == r400 % 36524
        n4 == r100 \div 1461
        r4 == r100 % 1461
        n1 == r4 \div 365
        r1 == r4 % 365
        year == n400 * 400 + 1 + n100 * 100 + n4 * 4 + n1
    IN
    Let(IF n1 = 4 \/ n100 = 4
        THEN [year |-> year - 1, yday |-> 365]
        ELSE [year |-> year, yday |-> r1], LAMBDA yy :
    Let(CHOOSE m \in 1..12 :
            /\ _days_before_month(yy.year, m) <= yy.yday
            /\ yy.yday < _days_before_month(yy.year, m)
                            + stdlib_days_in_month(yy.year, m), LAMBDA month :
        [year |-> yy.year, month |-> month,
         day |-> yy.yday - _days_before_month(yy.year, month) + 1]))

\* datetime(year, month, day, hour, minute, tzinfo=...): ValueError when a
\* field is out of range.
datetime(year, month, day, hour, minute, aware) ==
    IF \/ year < MINYEAR \/ year > MAXYEAR
       \/ month < 1 \/ month > 12
       \/ day < 1
       \/ (month \in 1..12 /\ day > stdlib_days_in_month(year, month))
       \/ hour < 0 \/ hour > 23 \/ minute < 0 \/ minute > 59
    THEN Raise("ValueError")
    ELSE [type |-> "datetime", ord |-> _ymd2ord(year, month, day),
          min |-> hour * 60 + minute, aware |-> aware]

Year(dt) == _ord2ymd(dt.ord).year

Month(dt) == _ord2ymd(dt.ord).month

Day(dt) == _ord2ymd(dt.ord).day

Hour(dt) == dt.min \div 60

Minute(dt) == dt.min % 60

\* timedelta(days=..., minutes=...), normalised; OverflowError past
\* 999999999 days.
timedelta(days, minutes) ==
    LET d == days + (minutes \div MinutesPerDay)
    IN  IF d > 999999999 \/ d < -999999999
        THEN Raise("OverflowError")
        ELSE [type |-> "timedelta", days |-> d, min |-> minutes % MinutesPerDay]

\* datetime + timedelta: OverflowError when the date leaves 0001..9999.
dt_add(dt, delta) ==
    LET m == dt.min + delta.min
        o == dt.ord + delta.days + (m \div MinutesPerDay)
    IN  IF o < 1 \/ o > MaxOrdinal
        THEN Raise("OverflowError")
        ELSE [dt EXCEPT !.ord = o, !.min = m % MinutesPerDay]

\* datetime - timedelta: datetime + (-timedelta)
dt_sub(dt, delta) ==
    dt_add(dt, IF delta.min = 0
               THEN [delta EXCEPT !.days = -delta.days]
               ELSE [delta EXCEPT !.days = -delta.days - 1,
                                  !.min = MinutesPerDay - delta.min])

\* datetime - datetime
dt_diff(a, b) == timedelta(a.ord - b.ord, a.min - b.min)

\* a < b, for two datetimes of the same awareness
dt_lt(a, b) == a.ord < b.ord \/ (a.ord = b.ord /\ a.min < b.min)

\* dt.replace(year=, month=, day=): ValueError when the day does not exist.
dt_replace_date(dt, year, month, day) ==
    datetime(year, month, day, Hour(dt), Minute(dt), dt.aware)

\* dt.replace(hour=, minute=, second=0, microsecond=0)
dt_replace_time(dt, hour, minute) ==
    datetime(Year(dt), Month(dt), Day(dt), hour, minute, dt.aware)

(***************************************************************************)
(* src/src/utils.py                                                        *)
(***************************************************************************)
_days_in_month(year, month) ==
    Then(IF month = 12
         THEN datetime(year + 1, 1, 1, 0, 0, FALSE)
         ELSE datetime(year, month + 1, 1, 0, 0, FALSE), LAMBDA next_month :
        Int_(Day(dt_sub(next_month, timedelta(1, 0)))))

\* _add_months without the clamp to the length of the target month.
_add_months_unclamped(dt, months) ==
    LET year == Year(dt) + ((Month(dt) - 1 + months) \div 12)
        month == ((Month(dt) - 1 + months) % 12) + 1
    IN  dt_replace_date(dt, year, month, Day(dt))

_add_months(dt, months) ==
    Let(Year(dt) + ((Month(dt) - 1 + months) \div 12), LAMBDA year :
    Let(((Month(dt) - 1 + months) % 12) + 1, LAMBDA month :
    Then(_days_in_month(year, month), LAMBDA dim :
        dt_replace_date(dt, year, month,
                        IF Day(dt) < dim.n THEN Day(dt) ELSE dim.n))))

\* next_due_date with timedelta(weeks=amount) written as timedelta(days=amount).
next_due_date_weeks_as_days(due_at, repeat_rule) ==
    IF due_at = None \/ repeat_rule = None \/ repeat_rule.s = "" THEN None
    ELSE
    Let(strip(lower(repeat_rule.s)), LAMBDA rule :
    Let(split(rule), LAMBDA parts :
        IF rule = "daily" THEN dt_add(due_at, timedelta(1, 0))
        ELSE IF rule = "weekly" THEN dt_add(due_at, timedelta(1, 0))
        ELSE IF rule = "monthly" THEN _add_months(due_at, 1)
        ELSE IF rule = "yearly" THEN _add_months(due_at, 12)
        ELSE IF startswith(rule, "every ") /\ Len(parts) >= 3 /\ isdigit(parts[2])
        THEN LET amount == int(parts[2])
                 unit == parts[3]
             IN  IF startswith(unit, "week") \/ startswith(unit, "day")
                 THEN dt_add(due_at, timedelta(amount, 0))
                 ELSE None
        ELSE None))

next_due_date(due_at, repeat_rule) ==
    IF due_at = None \/ repeat_rule = None \/ repeat_rule.s = "" THEN None
    ELSE
    Let(strip(lower(repeat_rule.s)), LAMBDA rule :
    Let(split(rule), LAMBDA parts :
        IF rule = "daily" THEN dt_add(due_at, timedelta(1, 0))
        ELSE IF rule = "weekly" THEN dt_add(due_at, timedelta(7, 0))
        ELSE IF rule = "monthly" THEN _add_months(due_at, 1)
        ELSE IF rule = "yearly" THEN _add_months(due_at, 12)
        ELSE IF startswith(rule, "every ") /\ Len(parts) >= 3 /\ isdigit(parts[2])
        THEN LET amount == int(parts[2])
                 unit == parts[3]
             IN  IF startswith(unit, "week")
                 THEN dt_add(due_at, timedelta(7 * amount, 0))
                 ELSE IF startswith(unit, "day")
                 THEN dt_add(due_at, timedelta(amount, 0))
                 ELSE None
        ELSE None))

(***************************************************************************)
(* Regular expressions of src/src/parser.py.  Every pattern is compiled    *)
(* with re.IGNORECASE: it is matched against the lower-cased text, whose   *)
(* positions are those of the text.  A match is [end |-> e, ...] with e    *)
(* the position after its last character; end = 0 means no match.          *)
(***************************************************************************)
NoMatch == [end |-> 0]

LitAt(t, i, lit) == i + Len(lit) - 1 <= Len(t) /\ SubSeq(t, i, i + Len(lit) - 1) = lit

RECURSIVE SkipSpaces(_, _)
SkipSpaces(t, i) ==
    IF i <= Len(t) /\ IsSpace(CharAt(t, i)) THEN SkipSpaces(t, i + 1) ELSE i

RECURSIVE SkipDigits(_, _)
SkipDigits(t, i) ==
    IF i <= Len(t) /\ IsDigit(CharAt(t, i)) THEN SkipDigits(t, i + 1) ELSE i

\* The first alternative of alts (in order) that matches at i, or "".
RECURSIVE FirstAlt(_, _, _)
FirstAlt(t, i, alts) ==
    IF alts = <<>> THEN ""
    ELSE IF LitAt(t, i, Head(alts)) THEN Head(alts)
    ELSE FirstAlt(t, i, Tail(alts))

IsWordChar(c) == IndexIn(LOWER, c) > 0 \/ IndexIn(UPPER, c) > 0 \/ IsDigit(c) \/ c = "_"

\* \b between positions i - 1 and i
Boundary(t, i) ==
    (i >= 2 /\ i - 1 <= Len(t) /\ IsWordChar(CharAt(t, i - 1)))
        # (i >= 1 /\ i <= Len(t) /\ IsWordChar(CharAt(t, i)))

\* The leftmost position at or after i where the pattern matches, or 0.
NextMatch(M(_, _), t, i) ==
    IF \E k \in i..Len(t) : M(t, k).end > 0
    THEN CHOOSE k \in i..Len(t) :
            M(t, k).end > 0 /\ \A j \in i..(k - 1) : M(t, j).end = 0
    ELSE 0

\* The leftmost match of a pattern: [start |-> i, end |-> e, ...] or NoMatch.
re_search(M(_, _), t) ==
    Let(NextMatch(M, t, 1), LAMBDA i :
        IF i = 0 THEN NoMatch ELSE [start |-> i] @@ M(t, i))

\* re.sub("", text): every non-overlapping match, left to right, removed.
RECURSIVE re_sub_from(_, _, _, _)
re_sub_from(M(_, _), text, t, i) ==
    Let(NextMatch(M, t, i), LAMBDA k :
        IF i > Len(t) THEN ""
        ELSE IF k = 0 THEN SubSeq(text, i, Len(text))
        ELSE SubSeq(text, i, k - 1) \o re_sub_from(M, text, t, M(t, k).end))

re_sub(M(_, _), text) == re_sub_from(M, text, lower(text), 1)

UNITS ==
    <<"minut", "min", "chas", "chasa", "chasov", "denj", "dnya", "dney",
      "nedelyu", "nedeli", "nedelj">>

\* napomni(?:tj)?\s+<word>\s+ : the position after it, or 0.
RemindPrefix(t, i, word) ==
    IF ~LitAt(t, i, "napomni") THEN 0
    ELSE Let(IF LitAt(t, i + 7, "tj") THEN i + 9 ELSE i + 7, LAMBDA p1 :
         Let(SkipSpaces(t, p1), LAMBDA p2 :
         Let(SkipSpaces(t, p2 + Len(word)), LAMBDA p4 :
             IF p2 > p1 /\ LitAt(t, p2, word) /\ p4 > p2 + Len(word) THEN p4 ELSE 0)))

\* (\d+)\s*(unit) at i
AmountUnit(t, i, units) ==
    Let(SkipDigits(t, i), LAMBDA p1 :
    Let(SkipSpaces(t, p1), LAMBDA p2 :
    Let(FirstAlt(t, p2, units), LAMBDA unit :
        IF p1 > i /\ unit # ""
        THEN [end |-> p2 + Len(unit), g1 |-> SubSeq(t, i, p1 - 1), g2 |-> unit]
        ELSE NoMatch)))

\* napomni(?:tj)?\s+za\s+(\d+)\s*(minut|min|chas|...)
_RE_REMIND_OFFSET(t, i) ==
    Let(RemindPrefix(t, i, "za"), LAMBDA p :
        IF p = 0 THEN NoMatch ELSE AmountUnit(t, p, UNITS))

\* napomni(?:tj)?\s+<word>\s+(.+)$ : \s+ gives back one blank when nothing
\* else is left for (.+), which cannot cross a line break.
RemindRest(t, i, word) ==
    IF ~LitAt(t, i, "napomni") THEN NoMatch
    ELSE Let(IF LitAt(t, i + 7, "tj") THEN i + 9 ELSE i + 7, LAMBDA p1 :
         Let(SkipSpaces(t, p1), LAMBDA p2 :
         Let(p2 + Len(word), LAMBDA p3 :
         Let(SkipSpaces(t, p3), LAMBDA p4 :
         Let(IF p4 <= Len(t) THEN p4 ELSE Len(t), LAMBDA g :
             IF /\ p2 > p1 /\ LitAt(t, p2, word) /\ p4 > p3
                /\ g > p3
                /\ \A k \in g..Len(t) : CharAt(t, k) # "\n"
             THEN [end |-> Len(t) + 1, gstart |-> g]
             ELSE NoMatch)))))

_RE_REMIND_AT(t, i) == RemindRest(t, i, "v")

_RE_REMIND_IN(t, i) == RemindRest(t, i, "cherez")

_RE_DURATION_PART(t, i) == AmountUnit(t, i, UNITS)

\* findall: the (amount, unit) pairs of the non-overlapping matches from
\* position i on.
RECURSIVE re_findall(_, _, _)
re_findall(M(_, _), t, i) ==
    Let(NextMatch(M, t, i), LAMBDA k :
        IF i > Len(t) \/ k = 0 THEN <<>>
        ELSE Let(M(t, k), LAMBDA m : <<m>> \o re_findall(M, t, m.end)))

DATE_WORDS ==
    <<"segodnya", "zavtra", "poslezavtra", "ponedeljnik", "vtornik", "sreda",
      "chetverg", "pyatnitsa", "subbota", "voskresenje">>

DAY_PARTS == <<"utra", "dnem", "vecherom", "nochjyu">>

\* \b(alt|alt|...)\b at i
WordOf(t, i, alts) ==
    IF ~Boundary(t, i) THEN NoMatch
    ELSE Let(SelectSeq(alts, LAMBDA a : LitAt(t, i, a) /\ Boundary(t, i + Len(a))),
             LAMBDA ok : IF ok = <<>> THEN NoMatch ELSE [end |-> i + Len(Head(ok))])

_RE_DATE_WORD(t, i) == WordOf(t, i, DATE_WORDS)

RE_DAY_PART(t, i) == WordOf(t, i, DAY_PARTS)

\* \d{n}[.:]\d{2} at i: the position after it, or 0
ClockAt(t, i, n) ==
    IF /\ i + n + 2 <= Len(t)
       /\ \A k \in i..(i + n - 1) : IsDigit(CharAt(t, k))
       /\ CharAt(t, i + n) \in {".", ":"}
       /\ IsDigit(CharAt(t, i + n + 1)) /\ IsDigit(CharAt(t, i + n + 2))
    THEN i + n + 3 ELSE 0

\* \d{n} at i: the position after it, or 0
DigitsAt(t, i, n) ==
    IF i + n - 1 <= Len(t) /\ \A k \in i..(i + n - 1) : IsDigit(CharAt(t, k))
    THEN i + n ELSE 0

\* \b\d{1,2}([.:]\d{2})?\b : two digits before one, the clock part before
\* none, the first of these that ends at a word boundary.
_RE_TIME_TOKEN(t, i) ==
    IF ~Boundary(t, i) THEN NoMatch
    ELSE Let(SelectSeq(<<ClockAt(t, i, 2), DigitsAt(t, i, 2),
                         ClockAt(t, i, 1), DigitsAt(t, i, 1)>>,
                       LAMBDA e : e > 0 /\ Boundary(t, e)),
             LAMBDA ok : IF ok = <<>> THEN NoMatch ELSE [end |-> Head(ok)])

\* (\b\d{1,2}[.:]\d{2}\b|\b\d{1,2}\b|\bsegodnya\b|...|\butra\b|...)
_RE_DATE_HINT(t, i) ==
    Let(_RE_TIME_TOKEN(t, i), LAMBDA clock_time :
        IF clock_time.end > 0 THEN clock_time
        ELSE WordOf(t, i, DATE_WORDS \o DAY_PARTS))

\* (alt|alt) at i, no word boundary asked
AnyOf(t, i, alts) ==
    Let(FirstAlt(t, i, alts), LAMBDA a : IF a = "" THEN NoMatch ELSE [end |-> i + Len(a)])

_RE_REPEAT_DAILY(t, i) == AnyOf(t, i, <<"kazhdyy denj", "ezhednevno">>)

_RE_REPEAT_WEEKLY(t, i) == AnyOf(t, i, <<"kazhduyu nedelyu", "ezhenedeljno">>)

_RE_REPEAT_MONTHLY(t, i) == AnyOf(t, i, <<"kazhdyy mesyats", "ezhemesyachno">>)

_RE_REPEAT_YEARLY(t, i) == AnyOf(t, i, <<"kazhdyy god", "ezhegodno">>)

\* kazhdye?\s+(\d+)\s*(denj|dnya|dney|nedelyu|nedeli|nedelj)
_RE_REPEAT_EVERY(t, i) ==
    IF ~LitAt(t, i, "kazhdy") THEN NoMatch
    ELSE Let(IF LitAt(t, i + 6, "e") THEN i + 7 ELSE i + 6, LAMBDA p1 :
         Let(SkipSpaces(t, p1), LAMBDA p2 :
             IF p2 > p1
             THEN AmountUnit(t, p2, <<"denj", "dnya", "dney", "nedelyu", "nedeli", "nedelj">>)
             ELSE NoMatch))

\* \d{1,2}[.:]\d{2}|\b(utra|dnem|vecherom|nochjyu)\b
RE_HAS_TIME(t, i) ==
    Let(ClockAt(t, i, 2), LAMBDA e2 :
        IF e2 > 0 THEN [end |-> e2]
        ELSE Let(ClockAt(t, i, 1), LAMBDA e1 :
                 IF e1 > 0 THEN [end |-> e1] ELSE RE_DAY_PART(t, i)))

\* re.sub(r"\s+", " ", text) from position i on
RECURSIVE collapse_spaces(_, _)
collapse_spaces(text, i) ==
    Let(NextMatch(LAMBDA t, j : [end |-> IF SkipSpaces(t, j) > j THEN SkipSpaces(t, j) ELSE 0],
                  text, i), LAMBDA k :
        IF i > Len(text) THEN ""
        ELSE IF k = 0 THEN SubSeq(text, i, Len(text))
        ELSE SubSeq(text, i, k - 1) \o " " \o collapse_spaces(text, SkipSpaces(text, k)))

\* needle in haystack
contains(haystack, needle) ==
    \E i \in 1..Len(haystack) : LitAt(haystack, i, needle)

(***************************************************************************)
(* The date parsing backend (dateparser, an external library).  env.dp is  *)
(* what it answers for a phrase whose reading the model does not fix,      *)
(* env.roll whether a bare clock time already past is moved to tomorrow,   *)
(* env.search what search_dates finds in the text.                         *)
(***************************************************************************)
\* "H:MM", "HH:MM", "H.MM" or "HH.MM" with a valid hour and minute
IsClock(phrase) ==
    /\ \/ (Len(phrase) = 4 /\ ClockAt(phrase, 1, 1) = 5)
       \/ (Len(phrase) = 5 /\ ClockAt(phrase, 1, 2) = 6)
    /\ int(SubSeq(phrase, 1, Len(phrase) - 3)) <= 23
    /\ int(SubSeq(phrase, Len(phrase) - 1, Len(phrase))) <= 59

dateparser_parse(phrase, now, env) ==
    Let(strip(lower(phrase)), LAMBDA ph :
        IF ph = "segodnya" THEN now
        ELSE IF ph = "zavtra" THEN dt_add(now, timedelta(1, 0))
        ELSE IF ph = "poslezavtra" THEN dt_add(now, timedelta(2, 0))
        ELSE IF IsClock(ph)
        THEN Let([now EXCEPT !.min = 60 * int(SubSeq(ph, 1, Len(ph) - 3))
                                     + int(SubSeq(ph, Len(ph) - 1, Len(ph)))],
                 LAMBDA at : IF env.roll /\ ~dt_lt(now, at)
                             THEN dt_add(at, timedelta(1, 0)) ELSE at)
        ELSE env.dp)

\* What it finds are phrases of the text, each with the date it read in it.
search_dates(text, now, env) ==
    SelectSeq(env.search, LAMBDA found : contains(lower(text), lower(found.text)))

(***************************************************************************)
(* src/src/parser.py                                                       *)
(***************************************************************************)
ParsedTask(title, description, due_at, remind_at, repeat_rule) ==
    [type |-> "ParsedTask", title |-> title, description |-> description,
     due_at |-> due_at, remind_at |-> remind_at, repeat_rule |-> repeat_rule]

\* _to_delta reading every unit as minutes
_to_delta_minutes_only(amount, unit) == timedelta(0, amount)

_to_delta(amount, unit) ==
    IF startswith(unit, "min") THEN timedelta(0, amount)
    ELSE IF startswith(unit, "chas") THEN timedelta(0, 60 * amount)
    ELSE IF startswith(unit, "ned") THEN timedelta(7 * amount, 0)
    ELSE timedelta(amount, 0)

\* delta = timedelta(); for ... in findall: delta += _to_delta(int(amount), unit)
RECURSIVE sum_deltas(_)
sum_deltas(found) ==
    IF found = <<>> THEN timedelta(0, 0)
    ELSE Then(sum_deltas(SubSeq(found, 1, Len(found) - 1)), LAMBDA delta :
         Then(_to_delta(int(found[Len(found)].g1), lower(found[Len(found)].g2)),
              LAMBDA d : timedelta(delta.days + d.days, delta.min + d.min)))

_extract_date_with_time(text, now, env) ==
    Let(lower(text), LAMBDA t :
    IF re_search(_RE_DATE_HINT, t).end = 0 THEN None
    ELSE
    Let(re_search(_RE_DATE_WORD, t), LAMBDA date_word_match :
    Let(re_search(_RE_TIME_TOKEN, t), LAMBDA time_match :
    Let(re_search(RE_DAY_PART, t), LAMBDA suffix_match :
    IF date_word_match.end = 0 THEN None
    ELSE IF time_match.end = 0 /\ suffix_match.end = 0 THEN None
    ELSE
    Let(dateparser_parse(
            SubSeq(text, date_word_match.start, date_word_match.end - 1), now, env),
        LAMBDA date_part :
    Let(IF time_match.end > 0
        THEN SubSeq(text, time_match.start, time_match.end - 1)
        ELSE "00:00", LAMBDA time_text0 :
    Let(IF suffix_match.end > 0
        THEN time_text0 \o " " \o SubSeq(text, suffix_match.start, suffix_match.end - 1)
        ELSE time_text0, LAMBDA time_text :
    Let(dateparser_parse(time_text, now, env), LAMBDA time_part :
    IF date_part = None THEN None
    ELSE IF time_part = None THEN None
    ELSE Let(dt_replace_time(date_part, Hour(time_part), Minute(time_part)),
             LAMBDA r : IF IsRaise(r) THEN None ELSE r)))))))))

\* candidates.sort(key=dt); candidates[0][1]
BestCandidate_earliest(candidates) ==
    LET first == CHOOSE k \in 1..Len(candidates) :
                    \A j \in 1..Len(candidates) : ~dt_lt(candidates[j].dt, candidates[k].dt)
    IN  candidates[first].dt

\* candidates.sort(key=(not has_time, dt)); candidates[0][1]
BestCandidate(candidates) ==
    LET before(a, b) ==
            \/ (a.has_time /\ ~b.has_time)
            \/ (a.has_time = b.has_time /\ dt_lt(a.dt, b.dt))
        first == CHOOSE k \in 1..Len(candidates) :
                    \A j \in 1..Len(candidates) :
                        \/ before(candidates[k], candidates[j])
                        \/ (~before(candidates[j], candidates[k]) /\ k <= j)
    IN  candidates[first].dt

_extract_due_date(text, now, env) ==
    Let(_extract_date_with_time(text, now, env), LAMBDA combined :
    IF combined # None THEN combined
    ELSE
    Let(search_dates(text, now, env), LAMBDA matches :
    Let(SelectSeq(matches, LAMBDA m : dt_lt(now, m.dt)), LAMBDA future :
    Let([k \in 1..Len(future) |->
            [has_time |-> re_search(RE_HAS_TIME, lower(future[k].text)).end > 0,
             dt |-> future[k].dt]], LAMBDA candidates :
    IF matches # <<>> /\ candidates # <<>> THEN BestCandidate(candidates)
    ELSE None))))

_extract_remind_at(text, now, env, due_at) ==
    Let(lower(text), LAMBDA t :
    Let(re_search(_RE_REMIND_IN, t), LAMBDA in_match :
    IF in_match.end > 0
    THEN Then(sum_deltas(re_findall(_RE_DURATION_PART,
                                    SubSeq(t, in_match.gstart, Len(t)), 1)), LAMBDA delta :
         Then(IF delta.days # 0 \/ delta.min # 0 THEN dt_add(now, delta) ELSE None,
              LAMBDA remind_at :
         IF remind_at # None /\ dt_lt(now, remind_at) THEN remind_at ELSE None))
    ELSE
    Let(re_search(_RE_REMIND_OFFSET, t), LAMBDA offset_match :
    IF offset_match.end > 0 /\ due_at # None
    THEN Then(_to_delta(int(offset_match.g1), lower(offset_match.g2)), LAMBDA delta :
         Then(dt_sub(due_at, delta), LAMBDA remind_at :
         IF dt_lt(now, remind_at) THEN remind_at ELSE None))
    ELSE
    Let(re_search(_RE_REMIND_AT, t), LAMBDA at_match :
    IF at_match.end > 0
    THEN Let(dateparser_parse(SubSeq(text, at_match.gstart, Len(text)), now, env),
             LAMBDA parsed : IF parsed # None /\ dt_lt(now, parsed) THEN parsed ELSE None)
    ELSE None))))

_extract_repeat_rule(text) ==
    Let(lower(text), LAMBDA t :
    IF re_search(_RE_REPEAT_DAILY, t).end > 0 THEN Str("daily")
    ELSE IF re_search(_RE_REPEAT_WEEKLY, t).end > 0 THEN Str("weekly")
    ELSE IF re_search(_RE_REPEAT_MONTHLY, t).end > 0 THEN Str("monthly")
    ELSE IF re_search(_RE_REPEAT_YEARLY, t).end > 0 THEN Str("yearly")
    ELSE
    Let(re_search(_RE_REPEAT_EVERY, t), LAMBDA match :
    IF match.end > 0
    THEN IF startswith(lower(match.g2), "ned")
         THEN Str("every " \o str_int(int(match.g1)) \o " weeks")
         ELSE Str("every " \o str_int(int(match.g1)) \o " days")
    ELSE None))

_cleanup_title(text) ==
    Let(strip(collapse_spaces(text, 1)), LAMBDA t0 :
    Let(re_sub(_RE_REMIND_OFFSET, t0), LAMBDA t1 :
    Let(re_sub(_RE_REMIND_AT, t1), LAMBDA t2 :
    Let(re_sub(_RE_REMIND_IN, t2), LAMBDA t3 :
    Let(re_sub(_RE_REPEAT_DAILY, t3), LAMBDA t4 :
    Let(re_sub(_RE_REPEAT_WEEKLY, t4), LAMBDA t5 :
    Let(re_sub(_RE_REPEAT_MONTHLY, t5), LAMBDA t6 :
    Let(re_sub(_RE_REPEAT_YEARLY, t6), LAMBDA t7 :
    Let(re_sub(_RE_REPEAT_EVERY, t7), LAMBDA t8 :
    Let(strip(collapse_spaces(t8, 1)), LAMBDA title :
    IF title # "" THEN title ELSE "Bez nazvaniya"))))))))))

\* _parse_fallback with due_at taken from the reminder whenever one is resolved
_parse_fallback_due_from_reminder(text, now, env) ==
    Let(_extract_due_date(text, now, env), LAMBDA due0 :
    Then(_extract_remind_at(text, now, env, due0), LAMBDA remind0 :
    Let(IF remind0 # None THEN remind0 ELSE due0, LAMBDA due_at :
    Let(IF remind0 = None /\ due_at # None /\ contains(lower(text), "napomni")
        THEN due_at ELSE remind0, LAMBDA remind_at :
    ParsedTask(_cleanup_title(text), None, due_at, remind_at,
               _extract_repeat_rule(text))))))

_parse_fallback(text, now, env) ==
    Let(_extract_due_date(text, now, env), LAMBDA due0 :
    Then(_extract_remind_at(text, now, env, due0), LAMBDA remind0 :
    Let(IF remind0 # None /\ due0 = None THEN remind0 ELSE due0, LAMBDA due_at :
    Let(IF remind0 = None /\ due_at # None /\ contains(lower(text), "napomni")
        THEN due_at ELSE remind0, LAMBDA remind_at :
    ParsedTask(_cleanup_title(text), None, due_at, remind_at,
               _extract_repeat_rule(text))))))

(***************************************************************************)
(* The LLM adapter.  llm is what the HTTP exchange gave: kind is           *)
(* "exception" (requests.post raised: network error, timeout), "status"    *)
(* (raise_for_status raised), "body" (response.json() raised or has no     *)
(* choices[0].message.content) or "content"; a content is described by     *)
(* what json.loads makes of it as a whole and of its outermost {...}.      *)
(***************************************************************************)
\* src/src/config.py: the settings the bot was started with.
ALLOWED_USER_IDS == {1}

Settings(key) ==
    [perplexity_api_key |-> key, tz |-> "Europe/Moscow",
     allowed_user_ids |-> ALLOWED_USER_IDS]

Invalid == [type |-> "invalid"]

Bool_(b) == [type |-> "bool", b |-> b]

List_(repr, len) == [type |-> "list", repr |-> repr, len |-> len]

Dict_(title, description, due_at, remind_at, repeat_rule) ==
    [type |-> "dict", title |-> title, description |-> description,
     due_at |-> due_at, remind_at |-> remind_at, repeat_rule |-> repeat_rule]

\* bool(value)
Truthy(v) ==
    CASE v.type = "NoneType" -> FALSE
      [] v.type = "str" -> v.s # ""
      [] v.type = "int" -> v.n # 0
      [] v.type = "bool" -> v.b
      [] v.type = "list" -> v.len > 0
      [] OTHER -> TRUE

\* str(value)
py_str(v) ==
    CASE v.type = "str" -> v.s
      [] v.type = "int" -> IF v.n < 0 THEN "-" \o str_int(-v.n) ELSE str_int(v.n)
      [] v.type = "bool" -> IF v.b THEN "True" ELSE "False"
      [] v.type = "list" -> v.repr
      [] OTHER -> "None"

\* The bot's timezone, Europe/Moscow, in minutes east of UTC.
TzOffset == 180

\* datetime.fromisoformat: YYYY-MM-DD[(T| )HH:MM[:SS]][(+|-)HH:MM].  An aware
\* result is kept as the wall clock of the bot's timezone at that instant.
fromisoformat(s) ==
    LET n == Len(s)
        num(a, b) == int(SubSeq(s, a, b))
    IN
    Let(/\ n \in {22, 25}
        /\ CharAt(s, n - 5) \in {"+", "-"}
        /\ isdigit(SubSeq(s, n - 4, n - 3)) /\ CharAt(s, n - 2) = ":"
        /\ isdigit(SubSeq(s, n - 1, n))
        /\ num(n - 4, n - 3) <= 23 /\ num(n - 1, n) <= 59, LAMBDA has_tz :
    Let(IF has_tz THEN n - 6 ELSE n, LAMBDA body :
    IF ~(/\ n >= 10
         /\ isdigit(SubSeq(s, 1, 4)) /\ CharAt(s, 5) = "-"
         /\ isdigit(SubSeq(s, 6, 7)) /\ CharAt(s, 8) = "-"
         /\ isdigit(SubSeq(s, 9, 10)))
    THEN Raise("ValueError")
    ELSE IF n = 10 THEN datetime(num(1, 4), num(6, 7), num(9, 10), 0, 0, FALSE)
    ELSE IF ~(/\ body \in {16, 19}
              /\ CharAt(s, 11) \in {"T", " "}
              /\ isdigit(SubSeq(s, 12, 13)) /\ CharAt(s, 14) = ":"
              /\ isdigit(SubSeq(s, 15, 16))
              /\ body = 19 => /\ CharAt(s, 17) = ":"
                              /\ isdigit(SubSeq(s, 18, 19))
                              /\ num(18, 19) <= 59)
    THEN Raise("ValueError")
    ELSE
    Let(datetime(num(1, 4), num(6, 7), num(9, 10), num(12, 13), num(15, 16), has_tz),
        LAMBDA local :
    IF IsRaise(local) \/ ~has_tz THEN local
    ELSE dt_add(local, timedelta(0, TzOffset
                    - (IF CharAt(s, n - 5) = "-" THEN -1 ELSE 1)
                        * (60 * num(n - 4, n - 3) + num(n - 1, n)))))))

\* _parse_dt handing whatever is truthy to datetime.fromisoformat
_parse_dt_any_type(value) ==
    IF ~Truthy(value) THEN None
    ELSE IF value.type = "str"
    THEN Let(fromisoformat(value.s), LAMBDA r : IF IsRaise(r) THEN None ELSE r)
    ELSE Raise("TypeError")

_parse_dt(value) ==
    IF ~Truthy(value) THEN None
    ELSE IF value.type = "str"
    THEN Let(fromisoformat(value.s), LAMBDA r : IF IsRaise(r) THEN None ELSE r)
    ELSE None

_normalize_repeat(value) ==
    IF ~Truthy(value) THEN None
    ELSE IF value.type = "str"
    THEN Let(lower(strip(value.s)),
             LAMBDA v : IF v \in {"none", "null"} THEN None ELSE Str(v))
    ELSE None

_nullify(value) ==
    IF ~Truthy(value) THEN None
    ELSE IF value.type = "str"
    THEN Let(strip(value.s), LAMBDA v : IF v # "" THEN Str(v) ELSE None)
    ELSE None

_safe_json_loads(content) ==
    IF content.whole # Invalid THEN content.whole
    ELSE IF content.lbrace # -1 /\ content.rbrace # -1 /\ content.rbrace > content.lbrace
    THEN IF content.inner # Invalid THEN content.inner ELSE None
    ELSE None

_parse_with_perplexity(text, now, settings, llm) ==
    IF llm.kind # "content" THEN None
    ELSE Let(_safe_json_loads(llm.content), LAMBDA data :
             IF data = None THEN None
             ELSE IF data.type # "dict" THEN None
             ELSE ParsedTask(
                    py_str(IF Truthy(data.title) THEN data.title ELSE Str(text)),
                    _nullify(data.description),
                    _parse_dt(data.due_at),
                    _parse_dt(data.remind_at),
                    _normalize_repeat(data.repeat_rule)))

parse_task_text(text0, now, settings, env) ==
    Let(strip(text0), LAMBDA text :
    Let(_parse_with_perplexity(text, now, settings, env.llm), LAMBDA parsed :
    IF Truthy(settings.perplexity_api_key) /\ parsed # None THEN parsed
    ELSE _parse_fallback(text, now, env)))

(***************************************************************************)
(* src/src/database.py: a row keeps its timestamps as ISO 8601 text.       *)
(***************************************************************************)
RECURSIVE zfill(_, _)
zfill(s, width) == IF Len(s) >= width THEN s ELSE zfill("0" \o s, width)

\* datetime.isoformat() of a datetime with no seconds; an aware datetime is
\* in the bot's timezone.
isoformat(dt) ==
    zfill(str_int(Year(dt)), 4) \o "-" \o zfill(str_int(Month(dt)), 2) \o "-"
        \o zfill(str_int(Day(dt)), 2) \o "T" \o zfill(str_int(Hour(dt)), 2) \o ":"
        \o zfill(str_int(Minute(dt)), 2) \o ":00"
        \o (IF dt.aware THEN "+03:00" ELSE "")

_to_dt(value) ==
    IF ~Truthy(value) THEN None
    ELSE Let(fromisoformat(value.s), LAMBDA r : IF IsRaise(r) THEN None ELSE r)

_to_str(value) == IF value # None THEN Str(isoformat(value)) ELSE None

Task(id, user_id, chat_id, title, description, due_at, remind_at, repeat_rule, status, created_at) ==
    [id |-> id, user_id |-> user_id, chat_id |-> chat_id, title |-> title,
     description |-> description, due_at |-> due_at, remind_at |-> remind_at,
     repeat_rule |-> repeat_rule, status |-> status, created_at |-> created_at]

_row_to_task(row) ==
    [row EXCEPT !.due_at = _to_dt(@), !.remind_at = _to_dt(@), !.created_at = _to_dt(@)]

\* INSERT INTO tasks: the table with the new row, whose id is rowid.
create_task(db, rowid, task) ==
    db \cup {[task EXCEPT !.id = rowid, !.due_at = _to_str(@),
                          !.remind_at = _to_str(@), !.created_at = _to_str(@)]}

\* SELECT * FROM tasks WHERE id = ? [AND user_id = ?]
get_task(db, task_id, user_id) ==
    Let({row \in db : row.id = task_id /\ (user_id = None \/ row.user_id = user_id.n)},
        LAMBDA rows : IF rows = {} THEN None ELSE _row_to_task(CHOOSE row \in rows : TRUE))

update_task_status(db, task_id, status) ==
    {IF row.id = task_id THEN [row EXCEPT !.status = status] ELSE row : row \in db}

\* DELETE FROM tasks WHERE id = ?
delete_task_any_owner(db, task_id, user_id) ==
    {row \in db : row.id # task_id}

\* DELETE FROM tasks WHERE id = ? AND user_id = ?
delete_task(db, task_id, user_id) ==
    {row \in db : ~(row.id = task_id /\ row.user_id = user_id)}

update_task_fields(db, task_id, due_at, remind_at, repeat_rule) ==
    {IF row.id = task_id
     THEN [row EXCEPT !.due_at = _to_str(due_at), !.remind_at = _to_str(remind_at),
                      !.repeat_rule = repeat_rule]
     ELSE row : row \in db}

update_task_title(db, task_id, title) ==
    {IF row.id = task_id THEN [row EXCEPT !.title = title] ELSE row : row \in db}

\* a < b as SQLite compares two TEXT values: the characters of an ISO 8601
\* text are ordered "+-.0123456789:T" in the BINARY collation.
text_lt(a, b) ==
    Let({k \in 1..(IF Len(a) < Len(b) THEN Len(a) ELSE Len(b)) :
            CharAt(a, k) # CharAt(b, k)}, LAMBDA differ :
        IF differ = {} THEN Len(a) < Len(b)
        ELSE Let(CHOOSE k \in differ : \A j \in differ : k <= j, LAMBDA first :
                 IndexIn("+-.0123456789:T", CharAt(a, first))
                    < IndexIn("+-.0123456789:T", CharAt(b, first))))

\* The rows of a table in rowid order.
RECURSIVE RowsFrom(_, _, _)
RowsFrom(db, rowid, last) ==
    IF rowid > last THEN <<>>
    ELSE Let({row \in db : row.id = rowid}, LAMBDA rows :
             (IF rows = {} THEN <<>> ELSE <<CHOOSE row \in rows : TRUE>>)
                \o RowsFrom(db, rowid + 1, last))

\* SELECT * FROM tasks WHERE status = 'open' AND remind_at IS NOT NULL AND remind_at > ?
list_future_reminders(db, last, now) ==
    Let(SelectSeq(RowsFrom(db, 1, last),
                  LAMBDA row : /\ row.status = "open"
                               /\ row.remind_at # None
                               /\ text_lt(_to_str(now).s, row.remind_at.s)),
        LAMBDA rows : [k \in 1..Len(rows) |-> _row_to_task(rows[k])])

(***************************************************************************)
(* src/src/bot.py.  A function that changes the store or the job queue is  *)
(* an operator from their values before to their values after; a handler   *)
(* that raises keeps the changes it made before the exception.             *)
(***************************************************************************)
\* a < b in Python: TypeError between a naive and an aware datetime.
py_lt(a, b) ==
    IF a.aware # b.aware THEN Raise("TypeError") ELSE Bool_(dt_lt(a, b))

job_name(task_id) == "remind_" \o str_int(task_id)

\* remove_reminder that leaves the jobs of the task in the queue
remove_reminder_keeps_jobs(queue, task_id) == queue

remove_reminder(queue, task_id) ==
    SelectSeq(queue, LAMBDA job : job.name # job_name(task_id))

schedule_reminder(queue, task) ==
    IF task.remind_at = None THEN queue
    ELSE Append(remove_reminder(queue, task.id),
                [name |-> job_name(task.id), when |-> task.remind_at,
                 data |-> [task_id |-> task.id, chat_id |-> task.chat_id]])

_remove_all_reminders(queue) ==
    SelectSeq(queue, LAMBDA job : ~startswith(job.name, "remind_"))

RECURSIVE schedule_all(_, _)
schedule_all(queue, found) ==
    IF found = <<>> THEN queue
    ELSE schedule_all(schedule_reminder(queue, Head(found)), Tail(found))

Effect(db, queue, result) == [db |-> db, queue |-> queue, ret |-> result]

\* candidate = new_due - (task.due_at - task.remind_at) when the task has a
\* reminder before its due time, else no candidate; TypeError when one of
\* the compared datetimes is naive and the other aware.
LeadCandidate(task, new_due) ==
    IF task.remind_at # None /\ task.due_at # None
    THEN Then(py_lt(task.remind_at, task.due_at), LAMBDA before :
              IF before.b THEN dt_sub(new_due, dt_diff(task.due_at, task.remind_at))
              ELSE None)
    ELSE None

_complete_task(task, now, db, queue) ==
    Let(next_due_date(task.due_at, task.repeat_rule), LAMBDA next_due :
    IF IsRaise(next_due) THEN Effect(db, queue, next_due)
    ELSE IF Truthy(task.repeat_rule) /\ next_due # None
    THEN
    Let(remove_reminder(queue, task.id), LAMBDA queue1 :
    Let(LeadCandidate(task, next_due), LAMBDA candidate :
    IF IsRaise(candidate) THEN Effect(db, queue1, candidate)
    ELSE
    Let(IF candidate = None THEN None ELSE py_lt(now, candidate), LAMBDA after :
    IF IsRaise(after) THEN Effect(db, queue1, after)
    ELSE
    Let(IF candidate # None /\ after.b THEN candidate ELSE None, LAMBDA new_remind :
    Effect(update_task_status(
                update_task_fields(db, task.id, next_due, new_remind, task.repeat_rule),
                task.id, "open"),
           IF new_remind # None
           THEN schedule_reminder(queue1, [task EXCEPT !.due_at = next_due,
                                                       !.remind_at = new_remind])
           ELSE queue1,
           Str("Povtor perenesen"))))))
    ELSE Effect(update_task_status(db, task.id, "done"),
                remove_reminder(queue, task.id),
                Str("Zadacha otmechena vypolnennoy")))

\* _parse_user_datetime without the comparison with now
_parse_user_datetime_any_time(text, now, env) == dateparser_parse(text, now, env)

_parse_user_datetime(text, now, env) ==
    Let(dateparser_parse(text, now, env), LAMBDA parsed :
        IF parsed # None /\ dt_lt(now, parsed) THEN parsed ELSE None)

\* The outcome of a pending action that always pops pending_action
PendingEffect_popped(db, queue, action, result) ==
    [db |-> db, queue |-> queue, pending |-> None, ret |-> result]

PendingEffect(db, queue, action, result) ==
    [db |-> db, queue |-> queue, pending |-> action, ret |-> result]

_handle_pending_action(user, action, text, now, env, db, queue) ==
    IF lower(text) \in {"/cancel", "otmena"}
    THEN PendingEffect(db, queue, None, Str("Otmeneno"))
    ELSE
    Let(get_task(db, action.task_id, Int_(user)), LAMBDA task :
    IF task = None
    THEN PendingEffect(db, queue, None, Str("Zadacha ne naydena"))
    ELSE IF action.type = "edit_text"
    THEN Let(join(split(text)), LAMBDA clean :
             IF clean = ""
             THEN PendingEffect(db, queue, action, Str("Tekst ne dolzhen bytj pustym"))
             ELSE PendingEffect(update_task_title(db, task.id, clean), queue, None,
                                Str("Tekst obnovlen")))
    ELSE IF action.type = "reschedule"
    THEN
    Let(_parse_user_datetime(text, now, env), LAMBDA new_due :
    IF new_due = None
    THEN PendingEffect(db, queue, action, Str("Ne ponyal datu"))
    ELSE
    Let(remove_reminder(queue, task.id), LAMBDA queue1 :
    Let(LeadCandidate(task, new_due), LAMBDA candidate :
    IF IsRaise(candidate) THEN PendingEffect(db, queue1, action, candidate)
    ELSE
    Let(IF candidate = None THEN None ELSE py_lt(now, candidate), LAMBDA after :
    IF IsRaise(after) THEN PendingEffect(db, queue1, action, after)
    ELSE
    Let(IF candidate # None /\ after.b THEN candidate ELSE new_due, LAMBDA new_remind :
    PendingEffect(
        update_task_fields(db, task.id, new_due, new_remind, task.repeat_rule),
        IF dt_lt(now, new_remind)
        THEN schedule_reminder(queue1, [task EXCEPT !.due_at = new_due,
                                                    !.remind_at = new_remind])
        ELSE queue1,
        None, Str("Pereneseno")))))))
    ELSE PendingEffect(db, queue, None, Str("Neizvestnoe deystvie")))

\* data.split(":", 1) when the action is a known one
_parse_callback(data) ==
    Let(find(data, ":"), LAMBDA at :
    IF at = -1 THEN <<None, "">>
    ELSE IF SubSeq(data, 1, at)
                \notin {"done", "open", "edit", "resched", "delete", "back"}
    THEN <<None, "">>
    ELSE <<Str(SubSeq(data, 1, at)), SubSeq(data, at + 2, Len(data))>>)

(***************************************************************************)
(* The recurrence advancer called on its own                               *)
(***************************************************************************)
\* No bot is running while a function is called on its own.
BotNotStarted ==
    /\ clock = None
    /\ tasks = {}
    /\ lastrowid = 0
    /\ jobs = <<>>
    /\ pending = <<>>
    /\ sent = {}
    /\ posts = 0

BaseYear == 2023

MaxYears == 1

MaxN == 3

\* Every due time on the first and the last days of every month of the years
\* modelled, early and late in the day, and every spelling of a rule.
InitAdvance ==
    /\ pc = "call"
    /\ args \in
        [due_at :
            {None} \cup
            {datetime(y, m, d, t[1], t[2], TRUE) :
                <<y, m, d, t>> \in
                    {q \in (BaseYear..(BaseYear + MaxYears)) \X (1..12)
                            \X {1, 28, 29, 30, 31} \X {<<9, 30>>, <<23, 59>>} :
                        q[3] <= stdlib_days_in_month(q[1], q[2])}},
         repeat_rule :
            {None, Str(""), Str("daily"), Str("weekly"), Str("monthly"), Str("yearly"),
             Str(" Daily "), Str("WEEKLY"), Str("biweekly"), Str("none"), Str("every"),
             Str("every 2"), Str("every x days"), Str("every 2 dayz"),
             Str("every 2 months"), Str("every 02 weeks"), Str("everyday"),
             Str("every  2  days later")}
            \cup {Str("every " \o str_int(n) \o u) :
                        n \in 0..MaxN, u \in {" days", " weeks"}}]
    /\ ret = None
    /\ BotNotStarted

CallAdvance ==
    /\ pc = "call"
    /\ ret' = next_due_date(args.due_at, args.repeat_rule)
    /\ pc' = "done"
    /\ UNCHANGED <<args, botvars>>

SpecAdvance == InitAdvance /\ [][CallAdvance]_vars

(***************************************************************************)
(* parse_task_text called on its own.  A text is a title, a date phrase,   *)
(* a reminder phrase and a recurrence phrase, any of them missing, or a    *)
(* reminder phrase followed by the title.                                  *)
(***************************************************************************)
TitleParts == {"", "sozvon s klientom"}

RECURSIVE Join(_)
Join(parts) ==
    IF parts = <<>> THEN ""
    ELSE LET rest == Join(Tail(parts))
         IN  IF Head(parts) = "" THEN rest
             ELSE IF rest = "" THEN Head(parts)
             ELSE Head(parts) \o " " \o rest

NoReply == [kind |-> "exception"]

\* Without an API key.  now is day D 12:00 or the last half hour of a
\* 28 February before a leap day; the date parsing backend finds nothing,
\* moves a bare clock time already past to tomorrow or not, or finds dates
\* in the text.
FallbackArgs ==
    LET DateParts == {"", "zavtra v 15:00", "segodnya v 10:00", "segodnya vecherom"}
        RemindParts ==
            {"", "napomni", "napomni za 1 chas", "Napomnitj za 2 dnya",
             "napomni za 4000000 dney", "napomni cherez 2 chasa i 20 minut",
             "napomni cherez 4000000 dney", "napomni v 9:30"}
        RepeatParts ==
            {"ezhednevno", "kazhduyu nedelyu"}
            \cup {"kazhdye " \o str_int(n) \o u : n \in 0..MaxN, u \in {" dnya", " nedeli"}}
        TextInputs ==
            {Join(<<t, d, r>>) : t \in TitleParts, d \in DateParts, r \in RemindParts}
            \cup {Join(<<"sozvon s klientom", d, p>>) :
                        d \in {"", "zavtra v 15:00"}, p \in RepeatParts}
            \cup {Join(<<r, t>>) : r \in RemindParts, t \in TitleParts}
            \cup {Join(<<"sozvon s klientom", "zavtra v 15:00", "napomni za 1 chas",
                          "napomni cherez 2 chasa">>)}
        EnvInputs(now) ==
            LET later == dt_add(now, timedelta(0, 7 * 60))
                found == <<[text |-> "zavtra", dt |-> dt_add(now, timedelta(1, 0))],
                           [text |-> "v 15:00", dt |-> dt_add(now, timedelta(0, 180))]>>
                past == <<[text |-> "v 10:00", dt |-> dt_sub(now, timedelta(0, 120))]>>
            IN  {[llm |-> NoReply, dp |-> None, roll |-> FALSE, search |-> <<>>],
                 [llm |-> NoReply, dp |-> None, roll |-> TRUE, search |-> <<>>],
                 [llm |-> NoReply, dp |-> later, roll |-> FALSE, search |-> <<>>],
                 [llm |-> NoReply, dp |-> None, roll |-> FALSE, search |-> past],
                 [llm |-> NoReply, dp |-> None, roll |-> FALSE, search |-> found],
                 [llm |-> NoReply, dp |-> later, roll |-> TRUE, search |-> found]}
    IN  UNION {[text : TextInputs, now : {now}, settings : {Settings(None)},
                env : EnvInputs(now)] :
                    now \in {datetime(2026, 2, 1, 12, 0, TRUE),
                             datetime(2024, 2, 28, 23, 30, TRUE)}}

Content(whole, lbrace, rbrace, inner) ==
    [whole |-> whole, lbrace |-> lbrace, rbrace |-> rbrace, inner |-> inner]

\* With an API key.  The model answers field by field; the reply is JSON,
\* JSON wrapped in prose or a code fence, or no JSON; or the request fails.
AdapterArgs ==
    LET TitleValues == {None, Str(""), Str("sozvon"), Int_(0), Int_(5), Bool_(TRUE)}
        DescriptionValues == {None, Str("  "), Str(" v ofise "), Int_(1)}
        DateValues ==
            {None, Str("2026-02-02T15:00:00+03:00"), Str("2026-02-01T10:00:00+03:00"),
             Str("2026-02-02T14:00:00"), Str("zavtra v 15:00"), Int_(5)}
        RepeatValues ==
            {None, Str("none"), Str(" Weekly "), Str("biweekly"), Str("every 0 days"),
             Str("every 3 days"), Int_(7)}
        DictValues ==
            {Dict_(t, d, due, rem, rep) :
                <<t, d, due, rem, rep>> \in
                    (TitleValues \X {None} \X {None} \X {None} \X RepeatValues)
                    \cup ({Str("sozvon")} \X {None} \X DateValues \X DateValues \X {None})
                    \cup ({Str("sozvon")} \X DescriptionValues \X {None} \X {None} \X {None})}
        ContentInputs ==
            {Content(v, 0, 1, v) : v \in DictValues}
            \cup {Content(Invalid, 8, 40, v) : v \in DictValues}
            \cup {Content(v, -1, -1, Invalid) :
                    v \in {None, Str("sozvon"), Int_(5), Bool_(TRUE),
                           List_("[]", 0), List_("[1]", 1)}}
            \cup {Content(Invalid, -1, -1, Invalid), Content(Invalid, 5, -1, Invalid),
                  Content(Invalid, 9, 3, Invalid), Content(Invalid, 0, 7, Invalid)}
        LLMInputs ==
            {[kind |-> k] : k \in {"exception", "status", "body"}}
            \cup {[kind |-> "content", content |-> c] : c \in ContentInputs}
    IN  [text : {"", "   ", "sozvon s klientom zavtra v 15:00 napomni za 1 chas",
                 "napomni cherez 4000000 dney"},
         now : {datetime(2026, 2, 1, 12, 0, TRUE)},
         settings : {Settings(Str("pplx-key"))},
         env : [llm : LLMInputs, dp : {None}, roll : {FALSE}, search : {<<>>}]]

InitParse ==
    /\ pc = "call"
    /\ args \in FallbackArgs \cup AdapterArgs
    /\ ret = None
    /\ BotNotStarted

CallParse ==
    /\ pc = "call"
    /\ ret' = parse_task_text(args.text, args.now, args.settings, args.env)
    /\ pc' = "done"
    /\ UNCHANGED <<args, botvars>>

SpecParse == InitParse /\ [][CallParse]_vars

(***************************************************************************)
(* parse_task_text step by step: pc is the function the call is in, posts  *)
(* counts the requests.post calls it has made.                             *)
(***************************************************************************)
MaxPosts == 3

\* parse_task_text, lines 56-58: strip, then the branch on the API key.
ParseEnter ==
    /\ pc = "call"
    /\ pc' = IF Truthy(args.settings.perplexity_api_key)
             THEN "_parse_with_perplexity" ELSE "_parse_fallback"
    /\ UNCHANGED <<args, ret, botvars>>

\* Where parse_task_text goes with what _parse_with_perplexity returned
\* when the attempt has failed
AfterAttempt_retry(parsed) ==
    IF parsed # None THEN "done" ELSE "_parse_with_perplexity"

\* Where parse_task_text goes with what _parse_with_perplexity returned.
AfterAttempt(parsed) ==
    IF parsed # None THEN "done" ELSE "_parse_fallback"

\* _parse_with_perplexity: one requests.post, whatever comes of it.
ParseAttempt ==
    /\ pc = "_parse_with_perplexity"
    /\ posts < MaxPosts
    /\ posts' = posts + 1
    /\ ret' = _parse_with_perplexity(strip(args.text), args.now, args.settings,
                                     args.env.llm)
    /\ pc' = AfterAttempt(ret')
    /\ UNCHANGED <<args, clock, tasks, lastrowid, jobs, pending, sent>>

ParseFallback ==
    /\ pc = "_parse_fallback"
    /\ ret' = _parse_fallback(strip(args.text), args.now, args.env)
    /\ pc' = "done"
    /\ UNCHANGED <<args, botvars>>

SpecAttempt == InitParse /\ [][ParseEnter \/ ParseAttempt \/ ParseFallback]_vars

(***************************************************************************)
(* _extract_due_date on a text without a date word: the due time comes     *)
(* from what search_dates finds, up to MaxFound phrases in any order, read *)
(* as dates before now, now itself or after now.                           *)
(***************************************************************************)
MaxFound == 3

InitSearch ==
    LET RECURSIVE SeqsUpTo(_, _)
        SeqsUpTo(S, n) ==
            IF n = 0 THEN {<<>>}
            ELSE Let(SeqsUpTo(S, n - 1), LAMBDA shorter :
                     shorter \cup {Append(q, x) : q \in shorter, x \in S})
    IN
    /\ pc = "call"
    /\ args \in
        [text : {"5 marta v 18:30 ili 7 marta vecherom"},
         now : {datetime(2026, 2, 1, 12, 0, TRUE)},
         env : [llm : {NoReply}, dp : {None}, roll : {FALSE},
                search : SeqsUpTo(
                    {[text |-> "5 marta", dt |-> datetime(2026, 2, 1, 12, 0, TRUE)],
                     [text |-> "5 marta", dt |-> datetime(2026, 3, 5, 0, 0, TRUE)],
                     [text |-> "7 marta", dt |-> datetime(2026, 3, 7, 0, 0, TRUE)],
                     [text |-> "v 18:30", dt |-> datetime(2026, 1, 31, 18, 30, TRUE)],
                     [text |-> "v 18:30", dt |-> datetime(2026, 3, 8, 18, 30, TRUE)],
                     [text |-> "7 marta vecherom", dt |-> datetime(2026, 3, 7, 19, 0, TRUE)],
                     [text |-> "7 marta vecherom", dt |-> datetime(2026, 1, 7, 19, 0, TRUE)]},
                    MaxFound)]]
    /\ ret = None
    /\ BotNotStarted

CallExtractDue ==
    /\ pc = "call"
    /\ ret' = _extract_due_date(args.text, args.now, args.env)
    /\ pc' = "done"
    /\ UNCHANGED <<args, botvars>>

SpecSearch == InitSearch /\ [][CallExtractDue]_vars


(***************************************************************************)
(* The bot: users send text messages, commands and button presses, the     *)
(* job queue runs the reminder jobs that are due, the clock advances and   *)
(* the process may be restarted.                                           *)
(***************************************************************************)
USERS == {1, 2}

MaxTasks == 1

MaxDays == 2

BotStart == datetime(2026, 2, 1, 12, 0, TRUE)

BotSettings == Settings(Str("pplx-key"))

\* The text messages users send, each with what the LLM and the date
\* parsing backend answer while it is handled.
Messages ==
    LET BotEnv(llm) == [llm |-> llm, dp |-> None, roll |-> FALSE, search |-> <<>>]
        Reply(data) == [kind |-> "content", content |-> Content(data, 0, 1, data)]
    IN  {[text |-> "sozvon zavtra v 9:00 napomni za 1 chas ezhednevno", env |-> BotEnv(NoReply)],
         [text |-> "segodnya v 10:00 napomni", env |-> BotEnv(NoReply)],
         [text |-> "kupitj hleb",
          env |-> BotEnv(Reply(Dict_(Str("kupitj hleb"), None, None,
                                     Str("2026-02-01T10:00:00+03:00"), Str("daily"))))],
         [text |-> "otchet",
          env |-> BotEnv(Reply(Dict_(Str("otchet"), None, Str("2026-02-02T09:00:00"),
                                     Str("2026-02-02T08:00:00"), Str("daily"))))],
         [text |-> "zavtra", env |-> BotEnv(NoReply)],
         [text |-> "otmena", env |-> BotEnv(NoReply)]}

IdTexts == {str_int(n) : n \in 1..MaxTasks} \cup {"x"}

CallbackData ==
    {a \o ":" \o t : a \in {"done", "open", "edit", "resched", "delete", "back"},
                     t \in IdTexts}
    \cup {"noop"}

\* run_daily(daily_summary, ...) for the hours 10, 15 and 19
DailyJobs ==
    [k \in 1..3 |-> [name |-> "daily_summary_" \o <<"10", "15", "19">>[k],
                     when |-> None, data |-> None]]

Init ==
    /\ pc = "main"
    /\ args = None
    /\ ret = None
    /\ clock = BotStart
    /\ tasks = {}
    /\ lastrowid = 0
    /\ jobs = DailyJobs
    /\ pending = [u \in USERS |-> None]
    /\ sent = {}
    /\ posts = 0

\* _is_allowed that lets every user in
_is_allowed_everyone(user) == TRUE

_is_allowed(user) == user \in BotSettings.allowed_user_ids

\* A task is completed only while its due time is at most MaxDays after the
\* start, which bounds how far a recurring task is rolled forward.
WithinHorizon(task) ==
    task.due_at # None => task.due_at.ord <= BotStart.ord + MaxDays

\* A handler that changed the store, the job queue or user_data, or raised.
Handled(handler, input, result) ==
    /\ pc' = handler
    /\ args' = input
    /\ ret' = result

\* A handler that returned early: it answered at most, and changed nothing.
Ignored == UNCHANGED vars

capture_message(user, message) ==
    LET text == strip(message.text)
        now == clock
    IN  /\ lastrowid < MaxTasks \/ pending[user] # None
        /\ IF ~_is_allowed(user)
           THEN Ignored
           ELSE IF text = ""
           THEN Ignored
           ELSE IF pending[user] # None
           THEN Let(_handle_pending_action(user, pending[user], text, now, message.env,
                                           tasks, jobs), LAMBDA eff :
                /\ Handled("capture_message", [user |-> user], eff.ret)
                /\ tasks' = eff.db
                /\ jobs' = eff.queue
                /\ pending' = [pending EXCEPT ![user] = eff.pending]
                /\ UNCHANGED <<clock, lastrowid, sent, posts>>)
           ELSE Let(parse_task_text(text, now, BotSettings, message.env), LAMBDA parsed :
                IF IsRaise(parsed)
                THEN /\ Handled("capture_message", [user |-> user], parsed)
                     /\ posts' = IF Truthy(BotSettings.perplexity_api_key) THEN 1 ELSE 0
                     /\ UNCHANGED <<clock, tasks, lastrowid, jobs, pending, sent>>
                ELSE Let(Task(lastrowid + 1, user, user, parsed.title,
                              parsed.description, parsed.due_at, parsed.remind_at,
                              parsed.repeat_rule, "open", now), LAMBDA task :
                     /\ Handled("capture_message", [user |-> user], Str("Dobavleno"))
                     /\ tasks' = create_task(tasks, task.id, task)
                     /\ lastrowid' = task.id
                     /\ jobs' = IF task.remind_at # None
                                THEN schedule_reminder(jobs, task)
                                ELSE jobs
                     /\ posts' = IF Truthy(BotSettings.perplexity_api_key) THEN 1 ELSE 0
                     /\ UNCHANGED <<clock, pending, sent>>))

done_command(user, arg) ==
    IF ~_is_allowed(user)
    THEN Ignored
    ELSE IF ~isdigit(arg)
    THEN Ignored
    ELSE Let(get_task(tasks, int(arg), Int_(user)), LAMBDA task :
         IF task = None
         THEN Ignored
         ELSE Let(_complete_task(task, clock, tasks, jobs), LAMBDA eff :
              /\ WithinHorizon(task)
              /\ Handled("done_command", [user |-> user], eff.ret)
              /\ tasks' = eff.db
              /\ jobs' = eff.queue
              /\ UNCHANGED <<clock, lastrowid, pending, sent, posts>>))

delete_command(user, arg) ==
    IF ~_is_allowed(user)
    THEN Ignored
    ELSE IF ~isdigit(arg)
    THEN Ignored
    ELSE IF get_task(tasks, int(arg), Int_(user)) = None
    THEN Ignored
    ELSE /\ Handled("delete_command", [user |-> user], Str("Zadacha udalena"))
         /\ tasks' = delete_task(tasks, int(arg), user)
         /\ jobs' = remove_reminder(jobs, int(arg))
         /\ UNCHANGED <<clock, lastrowid, pending, sent, posts>>

done_callback(user, data) ==
    IF ~_is_allowed(user)
    THEN Ignored
    ELSE
    Let(_parse_callback(data), LAMBDA parsed :
    IF parsed[1] = None
    THEN Ignored
    ELSE IF ~isdigit(parsed[2])
    THEN Ignored
    ELSE
    Let(get_task(tasks, int(parsed[2]), Int_(user)), LAMBDA task :
    IF task = None
    THEN Ignored
    ELSE IF parsed[1].s = "done"
    THEN Let(_complete_task(task, clock, tasks, jobs), LAMBDA eff :
         /\ WithinHorizon(task)
         /\ Handled("done_callback", [user |-> user], eff.ret)
         /\ tasks' = eff.db
         /\ jobs' = eff.queue
         /\ UNCHANGED <<clock, lastrowid, pending, sent, posts>>)
    ELSE IF parsed[1].s = "edit"
    THEN /\ Handled("done_callback", [user |-> user], Str("Napishi novyy tekst zadachi"))
         /\ pending' = [pending EXCEPT ![user] = [type |-> "edit_text", task_id |-> task.id]]
         /\ UNCHANGED <<clock, tasks, lastrowid, jobs, sent, posts>>
    ELSE IF parsed[1].s = "resched"
    THEN /\ Handled("done_callback", [user |-> user], Str("Napishi novuyu datu/vremya"))
         /\ pending' = [pending EXCEPT ![user] = [type |-> "reschedule", task_id |-> task.id]]
         /\ UNCHANGED <<clock, tasks, lastrowid, jobs, sent, posts>>
    ELSE IF parsed[1].s = "delete"
    THEN /\ Handled("done_callback", [user |-> user], Str("Zadacha udalena"))
         /\ tasks' = delete_task(tasks, task.id, task.user_id)
         /\ jobs' = remove_reminder(jobs, task.id)
         /\ UNCHANGED <<clock, lastrowid, pending, sent, posts>>
    ELSE \* "open" shows the task, "back" the list
         Ignored))

reschedule_all_reminders(db, last, queue, now) ==
    schedule_all(_remove_all_reminders(queue), list_future_reminders(db, last, now))

sync_command(user) ==
    LET input == [user |-> user]
    IN  IF ~_is_allowed(user)
        THEN Ignored
        ELSE /\ Handled("sync_command", input, Str("Napominaniya pereschitany"))
             /\ jobs' = reschedule_all_reminders(tasks, lastrowid, jobs, clock)
             /\ UNCHANGED <<clock, tasks, lastrowid, pending, sent, posts>>

\* The process is started again: the job queue and user_data start empty,
\* the table is as it was left.
on_startup ==
    /\ Handled("on_startup", None, None)
    /\ jobs' = schedule_all(<<>>, list_future_reminders(tasks, lastrowid, clock)) \o DailyJobs
    /\ pending' = [u \in USERS |-> None]
    /\ UNCHANGED <<clock, tasks, lastrowid, sent, posts>>

\* The instant a job runs at: the job queue reads a naive datetime as UTC.
JobInstant(when) ==
    IF when.aware THEN when ELSE dt_add(when, timedelta(0, TzOffset))

\* reminder_callback sending without reading the task again
reminder_callback_without_reread(k) ==
    LET job == jobs[k]
    IN  /\ startswith(job.name, "remind_")
        /\ ~dt_lt(clock, JobInstant(job.when))
        /\ Handled("reminder_callback", [job |-> job.name], None)
        /\ jobs' = SubSeq(jobs, 1, k - 1) \o SubSeq(jobs, k + 1, Len(jobs))
        /\ sent' = sent \cup {[chat_id |-> job.data.chat_id, task_id |-> job.data.task_id]}
        /\ UNCHANGED <<clock, tasks, lastrowid, pending, posts>>

\* The job queue runs the k-th job, a reminder whose time has come.
reminder_callback(k) ==
    LET job == jobs[k]
    IN  /\ startswith(job.name, "remind_")
        /\ ~dt_lt(clock, JobInstant(job.when))
        /\ Handled("reminder_callback", [job |-> job.name], None)
        /\ jobs' = SubSeq(jobs, 1, k - 1) \o SubSeq(jobs, k + 1, Len(jobs))
        /\ sent' = Let(get_task(tasks, job.data.task_id, None), LAMBDA task :
                       IF task # None /\ task.status = "open"
                       THEN sent \cup {[chat_id |-> job.data.chat_id, task_id |-> task.id]}
                       ELSE sent)
        /\ UNCHANGED <<clock, tasks, lastrowid, pending, posts>>

Tick(step) ==
    /\ clock.ord < BotStart.ord + MaxDays
    /\ clock' = dt_add(clock, step)
    /\ UNCHANGED <<pc, args, ret, tasks, lastrowid, jobs, pending, sent, posts>>

Next ==
    \/ \E user \in USERS, message \in Messages : capture_message(user, message)
    \/ \E user \in USERS, arg \in IdTexts : done_command(user, arg)
    \/ \E user \in USERS, arg \in IdTexts : delete_command(user, arg)
    \/ \E user \in USERS, data \in CallbackData : done_callback(user, data)
    \/ \E user \in USERS : sync_command(user)
    \/ on_startup
    \/ \E k \in 1..Len(jobs) : reminder_callback(k)
    \/ \E step \in {timedelta(2, 0)} : Tick(step)

Spec == Init /\ [][Next]_vars

\* The job queue runs a reminder job whose time has come, and time passes.
FairSpec ==
    /\ Spec
    /\ WF_vars(\E k \in 1..Len(jobs) : reminder_callback(k))
    /\ WF_vars(\E step \in {timedelta(2, 0)} : Tick(step))

(***************************************************************************)
(* A reschedule is pending for user 1 and task 1, and the user sends a     *)
(* text.  The task is open or done, with or without a rule, and has its    *)
(* due time and reminder absent, aware or naive, the reminder before, at   *)
(* or after the due time.                                                  *)
(***************************************************************************)
InitReschedule ==
    /\ pc = "done_callback"
    /\ args = [user |-> 1]
    /\ ret = Str("Napishi novuyu datu/vremya")
    /\ clock = BotStart
    /\ \E due_at \in {None, datetime(2026, 2, 2, 9, 0, TRUE),
                      datetime(2026, 2, 2, 9, 0, FALSE), datetime(2026, 2, 1, 10, 0, TRUE)},
          remind_at \in {None, datetime(2026, 2, 2, 8, 0, TRUE),
                         datetime(2026, 2, 2, 8, 0, FALSE), datetime(2026, 1, 30, 9, 0, TRUE),
                         datetime(2026, 2, 2, 9, 0, TRUE), datetime(2026, 2, 2, 10, 0, TRUE)},
          repeat_rule \in {None, Str("daily")}, status \in {"open", "done"} :
        Let(Task(1, 1, 1, "sozvon", None, due_at, remind_at, repeat_rule, status,
                 BotStart), LAMBDA task :
            /\ tasks = create_task({}, 1, task)
            /\ jobs = schedule_reminder(DailyJobs, task))
    /\ lastrowid = MaxTasks
    /\ pending = [u \in USERS |->
                    IF u = 1 THEN [type |-> "reschedule", task_id |-> 1] ELSE None]
    /\ sent = {}
    /\ posts = 0

SpecReschedule ==
    InitReschedule
    /\ [][\E text \in {"zavtra", "poslezavtra", "segodnya", "kupitj hleb", "otmena"},
             dp \in {None, datetime(2026, 2, 1, 19, 0, TRUE)} :
            capture_message(1, [text |-> text,
                                env |-> [llm |-> NoReply, dp |-> dp, roll |-> FALSE,
                                         search |-> <<>>]])]_vars

(***************************************************************************)
(* The task table on its own: rows are created, deleted and cleaned up on  *)
(* behalf of the users, and /delete is handled.                            *)
(***************************************************************************)
MaxRows == 3

\* tests/test_cleanup.py: the rows of the user whose title is not one of
\* those to keep are removed; bot.py has no _cleanup_tasks.
_cleanup_tasks(db, user_id, keep_titles) ==
    {row \in db : ~(row.user_id = user_id /\ row.title \notin keep_titles)}

InitStore ==
    /\ pc = "init_db"
    /\ args = None
    /\ ret = None
    /\ BotNotStarted

CallCreateTask(user_id, title) ==
    /\ lastrowid < MaxRows
    /\ Handled("create_task", [user_id |-> user_id, title |-> title], Int_(lastrowid + 1))
    /\ tasks' = create_task(tasks, lastrowid + 1,
                            Task(None, user_id, 100, title, None, None, None, None,
                                 "open", None))
    /\ lastrowid' = lastrowid + 1
    /\ UNCHANGED <<clock, jobs, pending, sent, posts>>

CallDeleteTask(task_id, user_id) ==
    /\ Handled("delete_task", [task_id |-> task_id, user_id |-> user_id],
               Bool_(delete_task(tasks, task_id, user_id) # tasks))
    /\ tasks' = delete_task(tasks, task_id, user_id)
    /\ UNCHANGED <<clock, lastrowid, jobs, pending, sent, posts>>

CallCleanupTasks(user_id, keep_titles) ==
    /\ tasks' = _cleanup_tasks(tasks, user_id, keep_titles)
    /\ Handled("_cleanup_tasks", [user_id |-> user_id, keep_titles |-> keep_titles],
               {row.id : row \in tasks \ tasks'})
    /\ UNCHANGED <<clock, lastrowid, jobs, pending, sent, posts>>

SpecStore ==
    InitStore /\ [][\/ \E user \in USERS, title \in {"task a", "task b"} :
                            CallCreateTask(user, title)
                    \/ \E task_id \in 1..MaxRows, user \in USERS :
                            CallDeleteTask(task_id, user)
                    \/ \E user \in USERS, keep \in {{"task a"}, {}} :
                            CallCleanupTasks(user, keep)
                    \/ \E user \in USERS, arg \in IdTexts : delete_command(user, arg)]_vars

(***************************************************************************)
(* Claims about next_due_date (checked under SpecAdvance)                  *)
(***************************************************************************)
Shifted(dt, days) == [dt EXCEPT !.ord = @ + days]

\* C6: for every due time and every positive N, next_due_date returns the due
\* time moved by a fixed number of days and the time of day unchanged:
\* daily +1, weekly +7, "every N days" +N, "every N weeks" +7N.
C6_FixedStep ==
    (pc = "done" /\ args.due_at # None) =>
        /\ args.repeat_rule = Str("daily") => ret = Shifted(args.due_at, 1)
        /\ args.repeat_rule = Str("weekly") => ret = Shifted(args.due_at, 7)
        /\ \A n \in 1..MaxN :
            /\ args.repeat_rule = Str("every " \o str_int(n) \o " days")
                    => ret = Shifted(args.due_at, n)
            /\ args.repeat_rule = Str("every " \o str_int(n) \o " weeks")
                    => ret = Shifted(args.due_at, 7 * n)

C6_Witness ==
    /\ pc = "done"
    /\ args.repeat_rule = Str("every 2 weeks")
    /\ args.due_at = datetime(BaseYear + 1, 12, 28, 23, 59, TRUE)
    /\ ret = datetime(BaseYear + 2, 1, 11, 23, 59, TRUE)

\* The last valid day of a month, from the calendar rule itself.
LastDay(year, month) ==
    IF month \in {4, 6, 9, 11} THEN 30
    ELSE IF month # 2 THEN 31
    ELSE IF year % 4 = 0 /\ (year % 100 # 0 \/ year % 400 = 0) THEN 29
    ELSE 28

Clamped(year, month, day, dt) ==
    datetime(year, month, IF day <= LastDay(year, month) THEN day ELSE LastDay(year, month),
             Hour(dt), Minute(dt), dt.aware)

\* C7: "monthly" gives the same day of the next month (December rolls into
\* January of the next year) and "yearly" the same day and month a year later,
\* both clamped to the last valid day of the target month, time of day kept.
C7_MonthYearClamp ==
    (pc = "done" /\ args.due_at # None) =>
        LET d == args.due_at IN
        /\ args.repeat_rule = Str("monthly") =>
                ret = IF Month(d) = 12
                      THEN Clamped(Year(d) + 1, 1, Day(d), d)
                      ELSE Clamped(Year(d), Month(d) + 1, Day(d), d)
        /\ args.repeat_rule = Str("yearly") =>
                ret = Clamped(Year(d) + 1, Month(d), Day(d), d)
        /\ (args.repeat_rule = Str("monthly") /\ Month(d) = 1 /\ Day(d) = 31) =>
                /\ Month(ret) = 2
                /\ Day(ret) = IF Year(d) % 4 = 0 THEN 29 ELSE 28
        /\ (args.repeat_rule = Str("yearly") /\ Month(d) = 2 /\ Day(d) = 29) =>
                (Year(ret) = Year(d) + 1 /\ Month(ret) = 2 /\ Day(ret) = 28)

C7_Witness ==
    /\ pc = "done"
    /\ args.repeat_rule = Str("monthly")
    /\ args.due_at = datetime(BaseYear + 1, 1, 31, 9, 30, TRUE)
    /\ ret = datetime(BaseYear + 1, 2, 29, 9, 30, TRUE)

\* One of daily, weekly, monthly, yearly, "every N days", "every N weeks"
\* with N a positive integer in decimal.
IsCanonicalRule(s) ==
    \/ s \in {"daily", "weekly", "monthly", "yearly"}
    \/ LET parts == split(s) IN
        /\ Len(parts) = 3
        /\ parts[1] = "every"
        /\ isdigit(parts[2])
        /\ int(parts[2]) >= 1
        /\ str_int(int(parts[2])) = parts[2]
        /\ parts[3] \in {"days", "weeks"}
        /\ s = "every " \o parts[2] \o " " \o parts[3]

\* C8: next_due_date returns no result, and does not raise, whenever due_at
\* is absent or the rule is absent or is not one of the canonical forms.
\* Stated for rules already in lower case and without surrounding blanks, so
\* that the normalisation next_due_date applies first plays no part.
C8_NoResultUnlessCanonical ==
    (/\ pc = "done"
     /\ \/ args.due_at = None
        \/ args.repeat_rule = None
        \/ /\ strip(lower(args.repeat_rule.s)) = args.repeat_rule.s
           /\ ~IsCanonicalRule(args.repeat_rule.s))
    => ret = None

(***************************************************************************)
(* Claims about parse_task_text (checked under SpecParse)                  *)
(***************************************************************************)
Returned == pc = "done" /\ ret.type = "ParsedTask"

KeyConfigured == Truthy(args.settings.perplexity_api_key)

\* C1: parse_task_text never raises and always returns a ParsedTask; with an
\* API key configured and no result from the LLM adapter, the value returned
\* is what _parse_fallback returns for the stripped text and the same now.
C1_NeverRaises ==
    pc = "done" =>
        /\ ~IsRaise(ret)
        /\ ret.type = "ParsedTask"
        /\ (/\ KeyConfigured
            /\ _parse_with_perplexity(strip(args.text), args.now, args.settings,
                                      args.env.llm) = None)
            => ret = _parse_fallback(strip(args.text), args.now, args.env)

\* C2: a remind_at produced by the fallback pipeline is strictly greater than
\* the now passed in, however the due time was resolved and also when
\* remind_at is defaulted to due_at because of the reminder cue word.
C2_RemindAfterNow ==
    (Returned /\ ~KeyConfigured /\ ret.remind_at # None)
        => dt_lt(args.now, ret.remind_at)

\* C4: the repeat_rule of every ParsedTask returned by parse_task_text is
\* absent or one of daily, weekly, monthly, yearly, "every N days",
\* "every N weeks" with N a positive integer.
C4_RepeatCanonical ==
    (Returned /\ ret.repeat_rule # None) => IsCanonicalRule(ret.repeat_rule.s)

\* C5: the title of every ParsedTask returned by parse_task_text is a
\* non-empty string, on the LLM path and on the fallback path.
C5_TitleNonEmpty ==
    Returned => ret.title # ""

C11_TitleKeepsTaskWords ==
    \A t \in TitleParts \ {""} :
        (Returned /\ ~KeyConfigured) =>
            /\ args.text = Join(<<t, "zavtra v 15:00", "napomni za 1 chas">>)
                    => ret.title = t
            /\ args.text = Join(<<"napomni cherez 2 chasa i 20 minut", t>>)
                    => ret.title = t

\* The texts whose reminder phrase is "napomni cherez 2 chasa i 20 minut".
RemindInText(t, d) ==
    {Join(<<t, d, "napomni cherez 2 chasa i 20 minut">>)}
    \cup (IF d = "" THEN {Join(<<"napomni cherez 2 chasa i 20 minut", t>>)} ELSE {})

C13_TimestampsAware ==
    Returned =>
        /\ ret.due_at # None => ret.due_at.aware
        /\ ret.remind_at # None => ret.remind_at.aware

\* C14: within one parse_task_text call the language model is requested
\* zero times without an API key and exactly once with one; a failed attempt
\* is not retried, and the fallback runs only after that one attempt failed.
\* The call returns what parse_task_text returns.
C14_OneRequest ==
    /\ posts <= 1
    /\ ~KeyConfigured => posts = 0
    /\ (KeyConfigured /\ pc \in {"_parse_fallback", "done"}) => posts = 1
    /\ (KeyConfigured /\ pc = "_parse_fallback") => ret = None
    /\ pc = "done" =>
        ret = parse_task_text(args.text, args.now, args.settings, args.env)

\* A call with a key whose request failed has ended in the fallback.
C14_Witness ==
    /\ pc = "done" /\ KeyConfigured /\ posts = 1
    /\ args.env.llm.kind = "exception"
    /\ ret = _parse_fallback(strip(args.text), args.now, args.env)

\* C19: when more than one reminder phrasing matches, the remind time is
\* the one of the earliest phrasing in the order offset-before-due, absolute,
\* relative: a text with "napomni za 1 chas" and then "napomni cherez
\* 2 chasa" gets the remind time the text has without the second phrase.
C19_OffsetBeforeRelative ==
    (/\ Returned
     /\ ~KeyConfigured
     /\ args.text = Join(<<"sozvon s klientom", "zavtra v 15:00", "napomni za 1 chas",
                           "napomni cherez 2 chasa">>))
    => /\ ret.remind_at = dt_sub(ret.due_at, timedelta(0, 60))
       /\ ret.remind_at =
            _parse_fallback(Join(<<"sozvon s klientom", "zavtra v 15:00",
                                   "napomni za 1 chas">>), args.now, args.env).remind_at

\* C20: _extract_due_date never raises and never returns a due time at or
\* before now, on the date-with-time path and on the full-text search path;
\* so a due_at of the fallback that is not the reminder's is after now.
C20_DueAfterNow ==
    (pc = "done" /\ ~KeyConfigured) =>
        LET due == _extract_due_date(strip(args.text), args.now, args.env)
        IN  /\ ~IsRaise(due)
            /\ due # None => dt_lt(args.now, due)
            /\ (Returned /\ ret.due_at # None /\ ret.due_at # ret.remind_at)
                    => dt_lt(args.now, ret.due_at)

\* What json.loads made of the reply of the language model.
C22_Data == _safe_json_loads(args.env.llm.content)

\* A timestamp field as the claim reads it: an ISO 8601 text, else absent.
C22_Timestamp(value) ==
    IF value.type = "str" /\ value.s # "" /\ ~IsRaise(fromisoformat(value.s))
    THEN fromisoformat(value.s) ELSE None

\* C22: when the reply of the language model parses as a JSON object, a
\* field that does not have its expected shape (a due_at or remind_at that
\* is no text or no ISO 8601 text, a description or repeat_rule that is no
\* text) is treated as absent, and the adapter still returns a ParsedTask
\* built from the other fields.
C22_BadFieldIsAbsent ==
    (/\ pc = "done" /\ KeyConfigured /\ args.env.llm.kind = "content"
     /\ C22_Data # None /\ C22_Data.type = "dict")
    => /\ ret = _parse_with_perplexity(strip(args.text), args.now, args.settings,
                                       args.env.llm)
       /\ ret.type = "ParsedTask"
       /\ ret.due_at = C22_Timestamp(C22_Data.due_at)
       /\ ret.remind_at = C22_Timestamp(C22_Data.remind_at)
       /\ C22_Data.description.type # "str" => ret.description = None
       /\ C22_Data.repeat_rule.type # "str" => ret.repeat_rule = None
       /\ C22_Data.title.type = "str" /\ C22_Data.title.s # "" => ret.title = C22_Data.title.s

\* The reply had a number for due_at and an ISO 8601 text for remind_at: the
\* task has the reminder and no due time.
C22_Witness ==
    /\ pc = "done" /\ KeyConfigured /\ args.env.llm.kind = "content"
    /\ C22_Data # None /\ C22_Data.type = "dict"
    /\ C22_Data.due_at = Int_(5)
    /\ C22_Data.remind_at = Str("2026-02-02T15:00:00+03:00")
    /\ ret.type = "ParsedTask" /\ ret.due_at = None
    /\ ret.remind_at = datetime(2026, 2, 2, 15, 0, TRUE)

(***************************************************************************)
(* Claims about the full-text date search (checked under SpecSearch)       *)
(***************************************************************************)
\* The dates found after now, those of a phrase with a time of day or all.
C21_After(timed) ==
    {args.env.search[k].dt : k \in {j \in 1..Len(args.env.search) :
        /\ dt_lt(args.now, args.env.search[j].dt)
        /\ timed => args.env.search[j].text \in {"v 18:30", "7 marta vecherom"}}}

\* C21: in full-text date search, among all candidates strictly after now
\* the selected due time is the earliest candidate whose matched text
\* carries an explicit time of day when there is one, and otherwise the
\* earliest candidate; candidates at or before now do not influence the
\* choice.
C21_EarliestTimedCandidate ==
    pc = "done" =>
        /\ C21_After(FALSE) = {} => ret = None
        /\ C21_After(TRUE) # {} =>
            ret \in C21_After(TRUE) /\ \A dt \in C21_After(TRUE) : ~dt_lt(dt, ret)
        /\ (C21_After(FALSE) # {} /\ C21_After(TRUE) = {}) =>
            ret \in C21_After(FALSE) /\ \A dt \in C21_After(FALSE) : ~dt_lt(dt, ret)
        /\ ret = _extract_due_date(args.text, args.now,
                    [args.env EXCEPT !.search =
                        SelectSeq(@, LAMBDA found : dt_lt(args.now, found.dt))])

\* An earlier date without a time of day and a past date with one were
\* found, and the later date that has a time of day was chosen.
C21_Witness ==
    /\ pc = "done"
    /\ ret = datetime(2026, 3, 7, 19, 0, TRUE)
    /\ \E k \in 1..Len(args.env.search) :
        /\ args.env.search[k].text = "5 marta"
        /\ args.env.search[k].dt = datetime(2026, 3, 5, 0, 0, TRUE)
    /\ \E k \in 1..Len(args.env.search) :
        /\ args.env.search[k].text = "v 18:30"
        /\ args.env.search[k].dt = datetime(2026, 1, 31, 18, 30, TRUE)

(***************************************************************************)
(* Claims about the bot (checked under Spec)                               *)
(***************************************************************************)
\* C3: reminders are never scheduled in the past: when capture_message
\* creates a task, whichever path produced the ParsedTask, the reminder job
\* it schedules for that task fires strictly after the now it passed to
\* parse_task_text.
C3_NoReminderInThePast ==
    [][lastrowid' # lastrowid =>
        \A k \in 1..Len(jobs') :
            jobs'[k].name = job_name(lastrowid') => dt_lt(clock, JobInstant(jobs'[k].when))]_vars

Completed == pc \in {"done_command", "done_callback"} /\ ret = Str("Povtor perenesen")

\* C9: rolling a recurring task forward lands strictly after now: when a
\* task whose due time is already past is completed and advanced, the new
\* due time is strictly greater than now, and the new reminder is the new due
\* time minus the original lead time.
C9_RollForwardAfterNow ==
    [][\A old \in tasks, new \in tasks' :
        (/\ Completed'
         /\ tasks' # tasks
         /\ old.id = new.id
         /\ old.due_at # None
         /\ dt_lt(_to_dt(old.due_at), clock))
        => /\ dt_lt(clock, _to_dt(new.due_at))
           /\ (old.remind_at # None /\ dt_lt(_to_dt(old.remind_at), _to_dt(old.due_at)))
                => new.remind_at =
                     _to_str(dt_sub(_to_dt(new.due_at),
                                    dt_diff(_to_dt(old.due_at), _to_dt(old.remind_at))))]_vars

\* The reminder time of the task "sozvon zavtra v 9:00 napomni za 1 chas".
C15_RemindAt == datetime(2026, 2, 2, 8, 0, TRUE)

C15_Kept ==
    \E row \in tasks :
        row.id = 1 /\ row.status = "open" /\ row.remind_at = _to_str(C15_RemindAt)

\* C15: a task created with a reminder time in the future gets its
\* notification: from the state where capture_message has created the task,
\* unless the task is deleted, completed or rescheduled, a reminder message
\* for the task is eventually sent to its chat, given that the job queue
\* runs due jobs and time passes.
C15_ReminderEventuallySent ==
    (/\ pc = "capture_message" /\ ret = Str("Dobavleno")
     /\ C15_Kept /\ dt_lt(clock, C15_RemindAt))
        ~> (~C15_Kept \/ \E message \in sent : message.task_id = 1)

\* A handler completes the task: /done <id> or the button "done:<id>" of a
\* user who may use the bot and owns the task.
CompletionOf(task) ==
    \E user \in USERS, arg \in IdTexts :
        /\ _is_allowed(user) /\ isdigit(arg)
        /\ get_task(tasks, int(arg), Int_(user)) = task
        /\ done_command(user, arg) \/ done_callback(user, "done:" \o arg)

\* An open task with a due time and a rule next_due_date recognizes.
Recurring(task) ==
    /\ task.status = "open" /\ task.due_at # None /\ Truthy(task.repeat_rule)
    /\ next_due_date(task.due_at, task.repeat_rule) # None
    /\ ~IsRaise(next_due_date(task.due_at, task.repeat_rule))

\* C17: each completion event of a recurring task applies the rule exactly
\* once: after _complete_task on an open task with due time d and a
\* recognized rule r, the stored due_at is next_due_date(d, r), the stored
\* repeat_rule is still r and the task is open.
C17_OneRuleApplication ==
    [][\A row \in tasks :
        (Recurring(_row_to_task(row)) /\ CompletionOf(_row_to_task(row)))
        => \E new \in tasks' :
            /\ new.id = row.id
            /\ new.due_at = _to_str(next_due_date(_to_dt(row.due_at), row.repeat_rule))
            /\ new.repeat_rule = row.repeat_rule
            /\ new.status = "open"]_vars

\* The reminder the claim gives a completed recurring task: the new due
\* time minus the old lead time when the lead time is positive and the
\* result is after now, else none.
C18_NewRemind(task, now) ==
    IF task.remind_at # None /\ dt_lt(task.remind_at, task.due_at)
    THEN Let(dt_sub(next_due_date(task.due_at, task.repeat_rule),
                    dt_diff(task.due_at, task.remind_at)), LAMBDA candidate :
             IF dt_lt(now, candidate) THEN candidate ELSE None)
    ELSE None

\* C18: after a recurring task is completed its stored remind_at is the new
\* due time minus the original lead time when that lead time was positive
\* and the result is strictly after now, and absent in every other case; a
\* reminder job is scheduled exactly when the new remind_at is present.
C18_LeadTimeKept ==
    [][\A row \in tasks :
        (Recurring(_row_to_task(row)) /\ CompletionOf(_row_to_task(row)))
        => /\ \E new \in tasks' :
                /\ new.id = row.id
                /\ new.remind_at = _to_str(C18_NewRemind(_row_to_task(row), clock))
           /\ (\E k \in 1..Len(jobs') : jobs'[k].name = job_name(row.id))
                <=> C18_NewRemind(_row_to_task(row), clock) # None]_vars

\* C23: completing a task follows the recurrence lifecycle: an open task
\* whose due time and rule can be advanced ends the completion open with the
\* advanced due time; a task with no rule, no due time or an unrecognized
\* rule ends it done, with due_at, remind_at and repeat_rule unchanged and
\* no reminder job left; a done task is never set back to open by any later
\* operation.
C23_Lifecycle ==
    [][\A row \in tasks :
        /\ (Recurring(_row_to_task(row)) /\ CompletionOf(_row_to_task(row)))
            => \E new \in tasks' :
                /\ new.id = row.id /\ new.status = "open"
                /\ new.due_at = _to_str(next_due_date(_to_dt(row.due_at), row.repeat_rule))
        /\ (/\ next_due_date(_to_dt(row.due_at), row.repeat_rule) = None
            /\ CompletionOf(_row_to_task(row)))
            => /\ [row EXCEPT !.status = "done"] \in tasks'
               /\ \A k \in 1..Len(jobs') : jobs'[k].name # job_name(row.id)
        /\ row.status = "done"
            => \A new \in tasks' : new.id = row.id => new.status = "done"]_vars

\* C24: after any sequence of task creation, completion, reschedule, delete,
\* /sync and startup, the job queue holds at most one pending reminder job
\* per task id.
C24_OneJobPerTask ==
    \A j, k \in 1..Len(jobs) :
        (startswith(jobs[j].name, "remind_") /\ jobs[j].name = jobs[k].name) => j = k

\* A recurring task that had a reminder job was completed and has the job
\* of its next reminder.
C24_Witness ==
    /\ Completed
    /\ \E k \in 1..Len(jobs) :
        /\ jobs[k].name = job_name(1)
        /\ \E row \in tasks : row.id = 1 /\ _to_str(jobs[k].when) = row.remind_at

\* C25: the job queue and the task store agree after every handler: every
\* pending reminder job belongs to a task that exists and is open, and its
\* fire time is that task's stored remind_at; a deleted or done task has no
\* pending reminder job.
C25_JobsMatchStore ==
    \A k \in 1..Len(jobs) :
        startswith(jobs[k].name, "remind_") =>
            \E row \in tasks :
                /\ row.id = jobs[k].data.task_id
                /\ row.status = "open"
                /\ row.remind_at = _to_str(jobs[k].when)

\* C26: no reminder notification is sent for a task that, at the moment its
\* job fires, is deleted or has a status other than open.
C26_SentOnlyForOpenTasks ==
    [][\A message \in sent' \ sent :
        \E row \in tasks : row.id = message.task_id /\ row.status = "open"]_vars

\* The reminder job of a task that is done has run and nothing was sent.
C26_Witness ==
    /\ pc = "reminder_callback" /\ args.job = job_name(1)
    /\ \E row \in tasks : row.id = 1 /\ row.status = "done"
    /\ sent = {}

\* C27: while a pending edit or reschedule action is recorded for a user,
\* that user's next text message is consumed by the pending action and
\* creates no task; the pending action is cleared on cancel, on success,
\* when the task no longer exists and on an unknown action type, and it
\* stays recorded, with the table as it was, when the reschedule text cannot
\* be parsed to a future date.
C27_PendingConsumesMessage ==
    /\ [](\A user \in USERS, message \in Messages :
            pending[user] # None =>
                _handle_pending_action(user, [pending[user] EXCEPT !.type = "archive"],
                                       strip(message.text), clock, message.env,
                                       tasks, jobs).pending = None)
    /\ [][\A user \in USERS :
        pending[user] # None =>
            /\ (pc' = "capture_message" /\ args' = [user |-> user] /\ clock' = clock)
                => /\ lastrowid' = lastrowid
                   /\ {row.id : row \in tasks'} = {row.id : row \in tasks}
                   /\ ret' \in {Str("Otmeneno"), Str("Zadacha ne naydena"),
                                Str("Tekst obnovlen"), Str("Pereneseno"),
                                Str("Ne ponyal datu")}
                   /\ ret' # Str("Ne ponyal datu") => pending'[user] = None
                   /\ ret' = Str("Ne ponyal datu")
                        => /\ pending[user].type = "reschedule"
                           /\ pending'[user] = pending[user]
                           /\ tasks' = tasks
                   /\ ret' = Str("Zadacha ne naydena")
                        => \A row \in tasks : row.id # pending[user].task_id]_vars

\* A reschedule is pending and the user's text was no date: the action is
\* still recorded.
C27_Witness ==
    /\ pc = "capture_message" /\ ret = Str("Ne ponyal datu")
    /\ pending[args.user] = [type |-> "reschedule", task_id |-> 1]
    /\ lastrowid = 1

\* C29: no command, text message or button callback from a user who is not
\* in allowed_user_ids changes any state: it creates, edits, completes,
\* reschedules and deletes no task, adds and removes no reminder job and
\* sets no pending action.  No row, job or pending action is that of such a
\* user.
C29_DeniedChangesNothing ==
    /\ [](\A user \in USERS \ ALLOWED_USER_IDS :
            /\ \A row \in tasks : row.user_id # user
            /\ \A k \in 1..Len(jobs) : jobs[k].data # None => jobs[k].data.chat_id # user
            /\ pending[user] = None)
    /\ [][\A user \in USERS \ ALLOWED_USER_IDS :
            (\/ \E message \in Messages : capture_message(user, message)
             \/ \E arg \in IdTexts : done_command(user, arg) \/ delete_command(user, arg)
             \/ \E data \in CallbackData : done_callback(user, data)
             \/ sync_command(user))
            => UNCHANGED <<tasks, lastrowid, jobs, pending, sent, posts>>]_vars

\* An open task of an allowed user with its reminder job and a pending
\* action, which the requests of the other user would complete, delete,
\* edit or reschedule.
C29_Witness ==
    /\ USERS \ ALLOWED_USER_IDS # {}
    /\ \E row \in tasks : row.id = 1 /\ row.status = "open" /\ row.user_id = 1
    /\ \E k \in 1..Len(jobs) : jobs[k].name = job_name(1)
    /\ pending[1] # None
    /\ \A user \in USERS \ ALLOWED_USER_IDS : pending[user] = None

(***************************************************************************)
(* Claims about the reschedule (checked under SpecReschedule)              *)
(***************************************************************************)
\* The reminder the claim gives a rescheduled task: the new due time minus
\* the old lead time when the lead time is positive and the result is after
\* now, else the new due time.
C28_NewRemind(task, new_due, now) ==
    IF task.remind_at # None /\ task.due_at # None /\ dt_lt(task.remind_at, task.due_at)
    THEN Let(dt_sub(new_due, dt_diff(task.due_at, task.remind_at)), LAMBDA candidate :
             IF dt_lt(now, candidate) THEN candidate ELSE new_due)
    ELSE new_due

\* C28: after a successful reschedule the stored due_at is the new due time
\* and is strictly after now; the stored remind_at is the new due time minus
\* the old lead time when that was positive and the result is strictly after
\* now, and the new due time otherwise, so now < remind_at <= due_at;
\* repeat_rule, title and status are unchanged and exactly one reminder job
\* is pending for the task, at remind_at.
C28_RescheduleKeepsLead ==
    [][(pc' = "capture_message" /\ ret' = Str("Pereneseno")) =>
        \A old \in tasks : \E new \in tasks' :
            /\ new.id = old.id
            /\ new.due_at \in {_to_str(dt_add(clock, timedelta(1, 0))),
                               _to_str(dt_add(clock, timedelta(2, 0))),
                               _to_str(datetime(2026, 2, 1, 19, 0, TRUE))}
            /\ dt_lt(clock, _to_dt(new.due_at))
            /\ new.remind_at =
                _to_str(C28_NewRemind(_row_to_task(old), _to_dt(new.due_at), clock))
            /\ dt_lt(clock, _to_dt(new.remind_at))
            /\ ~dt_lt(_to_dt(new.due_at), _to_dt(new.remind_at))
            /\ new.repeat_rule = old.repeat_rule
            /\ new.title = old.title
            /\ new.status = old.status
            /\ Cardinality({k \in 1..Len(jobs') : jobs'[k].name = job_name(old.id)}) = 1
            /\ \A k \in 1..Len(jobs') :
                jobs'[k].name = job_name(old.id) => _to_str(jobs'[k].when) = new.remind_at]_vars

\* A task due tomorrow at 9:00 with its reminder an hour before was moved to
\* the day after tomorrow at 12:00: the reminder is at 11:00 that day.
C28_Witness ==
    /\ pc = "capture_message" /\ ret = Str("Pereneseno")
    /\ \E row \in tasks :
        /\ row.due_at = _to_str(datetime(2026, 2, 3, 12, 0, TRUE))
        /\ row.remind_at = _to_str(datetime(2026, 2, 3, 11, 0, TRUE))
    /\ \E k \in 1..Len(jobs) : jobs[k].when = datetime(2026, 2, 3, 11, 0, TRUE)

====
